---- MODULE Spec2Model ----
(***************************************************************************)
(* Model of the gesetze-im-internet XML -> JSON converter (convert-gii).   *)
(*                                                                         *)
(* Strings are sequences of one-character strings, so that trimming,       *)
(* regular-expression matching and concatenation are computed as the code  *)
(* computes them.  Four characters outside ASCII are written as tokens:    *)
(*   "SECT" = U+00A7 (section sign)   "BULLET" = U+2022                    *)
(*   "ENDASH" = U+2013                "EMDASH" = U+2014                    *)
(* A node of the order-preserving XML parse (PONode) is a record           *)
(*   [tag, attrs, kids, text]; a text node has tag "#text".                *)
(***************************************************************************)
EXTENDS Integers, Sequences, FiniteSets, TLC

VARIABLES
    \* ---- convert(): the document assembler
    po,             \* the parsed XML (root node list)
    norms,          \* collectNorms(po)
    pc,             \* position of convert(): "start", "meta", "main", "done"
    ni,             \* index of the norm the current loop looks at
    doc,            \* DocumentNode: [jurabk, title, children]
    nodes,          \* heap of Outline/Article/Section objects, by reference
    stack,          \* stack of open OutlineNode references
    \* ---- parseList(): the loop over the children of one <dl>
    kids,           \* childrenOf(dl)
    idPrefix,       \* inherited id prefix
    k,              \* index of the child the loop looks at
    items,          \* ListItemNode[]
    pendingMarker,  \* marker of the item being collected
    listKind, listStyle, listSymbol,
    buf,            \* children of the item being collected
    listOut,        \* the returned ListNode
    \* ---- one call of a pure helper
    call,           \* [op, arg]
    ret             \* its return value

asmVars  == <<po, norms, pc, ni, doc, nodes, stack>>
listVars == <<kids, idPrefix, k, items, pendingMarker, listKind, listStyle,
              listSymbol, buf, listOut>>
fnVars   == <<call, ret>>
vars     == <<po, norms, pc, ni, doc, nodes, stack,
              kids, idPrefix, k, items, pendingMarker, listKind, listStyle,
              listSymbol, buf, listOut, call, ret>>

(***************************************************************************)
(* Bounds of the model.                                                    *)
(***************************************************************************)
MaxNorms     == 3    \* norm records in one document
MaxMarkerLen == 3    \* characters in a marker handed to classifyMarker
MaxDlKids    == 4    \* <dt>/<dd>/<la> children of one <dl>
MaxCodeLen   == 8    \* characters in an outline code handed to levelFromCode
MaxParaKids  == 3    \* children of one <p> handed to parseParagraph
MaxInline    == 2    \* inline nodes in one run handed to renderInlineToMd
MaxCols      == 3    \* <colspec> elements of one <tgroup>
MaxRows      == 2    \* <row> elements of one <thead> or <tbody>

(***************************************************************************)
(* Strings.                                                                *)
(***************************************************************************)
undefined == <<"undefined">>      \* JavaScript undefined / null / absent
Null      == [type |-> "null"]    \* a parser returning null

Digit == {"0", "1", "2", "3", "4", "5", "6", "7", "8", "9"}
LowerSeq == <<"a", "b", "c", "d", "e", "f", "g", "h", "i", "j", "k", "l", "m",
              "n", "o", "p", "q", "r", "s", "t", "u", "v", "w", "x", "y", "z">>
UpperSeq == <<"A", "B", "C", "D", "E", "F", "G", "H", "I", "J", "K", "L", "M",
              "N", "O", "P", "Q", "R", "S", "T", "U", "V", "W", "X", "Y", "Z">>
Lower == {LowerSeq[j] : j \in 1..26}
Upper == {UpperSeq[j] : j \in 1..26}
Letter == Lower \cup Upper
RomanLower == {"i", "v", "x", "l", "c", "d", "m"}
RomanUpper == {"I", "V", "X", "L", "C", "D", "M"}
WhiteSpace == {" ", "\t", "\n"}

\* String.prototype.toLowerCase on one character
toLowerCase(c) ==
    IF c \in Upper THEN LowerSeq[CHOOSE j \in 1..26 : UpperSeq[j] = c] ELSE c

\* index of the first character at or after i that is not in set S
RECURSIVE SkipMany(_, _, _)
SkipMany(s, i, S) ==
    IF i <= Len(s) /\ s[i] \in S THEN SkipMany(s, i + 1, S) ELSE i

\* index after an optional character of S at i
SkipOpt(s, i, S) == IF i <= Len(s) /\ s[i] \in S THEN i + 1 ELSE i

\* index of the last character at or before i that is not in set S
RECURSIVE SkipBack(_, _, _)
SkipBack(s, i, S) ==
    IF i >= 1 /\ s[i] \in S THEN SkipBack(s, i - 1, S) ELSE i

\* String.prototype.trim
Trim(s) ==
    LET a == SkipMany(s, 1, WhiteSpace)
        b == SkipBack(s, Len(s), WhiteSpace)
    IN  IF a > b THEN <<>> ELSE SubSeq(s, a, b)

\* s.match(/\d+/)?.[0] : the first maximal run of digits, or undefined
RECURSIVE FirstDigitAt(_, _)
FirstDigitAt(s, i) ==
    IF i > Len(s) THEN 0
    ELSE IF s[i] \in Digit THEN i ELSE FirstDigitAt(s, i + 1)

MatchDigits(s) ==
    LET a == FirstDigitAt(s, 1)
    IN  IF a = 0 THEN undefined
        ELSE SubSeq(s, a, SkipMany(s, a, Digit) - 1)

\* a JavaScript string is truthy when it is present and not empty
Truthy(s) == s # undefined /\ s # <<>>

(***************************************************************************)
(* PONode helpers.                                                         *)
(***************************************************************************)
NoAttrs == <<>>
Text(s) == [tag |-> "#text", attrs |-> NoAttrs, kids |-> <<>>, text |-> s]
ElA(t, a, ks) == [tag |-> t, attrs |-> a, kids |-> ks, text |-> <<>>]
El(t, ks) == ElA(t, NoAttrs, ks)

\* the result of Array.prototype.find that found nothing
NoNode == [tag |-> "#undefined", attrs |-> NoAttrs, kids |-> <<>>, text |-> <<>>]
Present(n) == n # NoNode

isTextNode(n) == n.tag = "#text"

textOf(n) == IF isTextNode(n) THEN n.text ELSE <<>>

\* the lower-cased local tag name; NoTag (falsy) for a text node
NoTag == ""
lname(n) == IF isTextNode(n) THEN NoTag ELSE n.tag

childrenOf(n) == IF isTextNode(n) THEN <<>> ELSE n.kids

Attr(a, name) == IF name \in DOMAIN a THEN a[name] ELSE undefined

\* attributes of the first child that carries any, else the node's own
attrsOf(n) ==
    LET ks == childrenOf(n)
        withAttrs == {j \in 1..Len(ks) : DOMAIN ks[j].attrs # {}}
    IN  IF withAttrs # {}
        THEN ks[CHOOSE j \in withAttrs : \A j2 \in withAttrs : j <= j2].attrs
        ELSE n.attrs

RECURSIVE FilterTag(_, _)
FilterTag(ks, name) ==
    IF ks = <<>> THEN <<>>
    ELSE IF lname(Head(ks)) = name
         THEN <<Head(ks)>> \o FilterTag(Tail(ks), name)
         ELSE FilterTag(Tail(ks), name)

allChildren(n, name) == FilterTag(childrenOf(n), name)

firstChild(n, name) ==
    LET cs == allChildren(n, name)
    IN  IF cs = <<>> THEN NoNode ELSE Head(cs)

\* all descendants (and the node itself) with the tag, in document order
RECURSIVE allDesc(_, _), allDescSeq(_, _)
allDesc(n, name) ==
    (IF lname(n) = name THEN <<n>> ELSE <<>>) \o allDescSeq(childrenOf(n), name)
allDescSeq(ks, name) ==
    IF ks = <<>> THEN <<>>
    ELSE allDesc(Head(ks), name) \o allDescSeq(Tail(ks), name)

\* concatenation of all descendant text, trimmed
RECURSIVE RawText(_), RawTextSeq(_)
RawText(n) == IF isTextNode(n) THEN textOf(n) ELSE RawTextSeq(childrenOf(n))
RawTextSeq(ks) ==
    IF ks = <<>> THEN <<>> ELSE RawText(Head(ks)) \o RawTextSeq(Tail(ks))

textDeep(n) == Trim(RawText(n))

(***************************************************************************)
(* Level detection for gliederungskennzahl.                                *)
(***************************************************************************)
OnlyDigits(s) == SelectSeq(s, LAMBDA c : c \in Digit)

\* variant: the chunks are taken to be two digits wide
levelFromCodeWidth2(code) ==
    LET digits == OnlyDigits(Trim(code))
    IN  IF digits = <<>> THEN 1
        ELSE (Len(digits) + 1) \div 2

\* variant: the quotient is rounded down and one is added
levelFromCodeFloor(code) ==
    LET digits == OnlyDigits(Trim(code))
    IN  IF digits = <<>> THEN 1
        ELSE 1 + (Len(digits) \div 3)

\* variant: the quotient is rounded down, so a short code has depth 0
levelFromCodeDown(code) ==
    LET digits == OnlyDigits(Trim(code))
    IN  IF digits = <<>> THEN 1
        ELSE Len(digits) \div 3

levelFromCode(code) ==
    LET digits == OnlyDigits(Trim(code))
    IN  IF digits = <<>> THEN 1
        ELSE (Len(digits) + 2) \div 3         \* Math.ceil(length / 3)

(***************************************************************************)
(* Inline -> Markdown.                                                     *)
(***************************************************************************)
InlineOpen(t) ==
    CASE t = "b"     -> <<"*", "*">>
      [] t = "i"     -> <<"*">>
      [] t = "u"     -> <<"<", "u", ">">>
      [] t = "sup"   -> <<"<", "s", "u", "p", ">">>
      [] t = "sub"   -> <<"<", "s", "u", "b", ">">>
      [] t = "small" -> <<"<", "s", "m", "a", "l", "l", ">">>
      [] OTHER       -> <<>>
InlineClose(t) ==
    CASE t = "b"     -> <<"*", "*">>
      [] t = "i"     -> <<"*">>
      [] t = "u"     -> <<"<", "/", "u", ">">>
      [] t = "sup"   -> <<"<", "/", "s", "u", "p", ">">>
      [] t = "sub"   -> <<"<", "/", "s", "u", "b", ">">>
      [] t = "small" -> <<"<", "/", "s", "m", "a", "l", "l", ">">>
      [] OTHER       -> <<>>

\* [^id] for a non-empty id
FnrMarker(id) ==
    IF id # <<>> THEN <<"[", "^">> \o Trim(id) \o <<"]">> ELSE <<>>

\* case "fnr", inner being the rendered children: with an id attribute the
\* children are not rendered; without one renderChildren(kids) has already
\* appended them to out when the marker is appended
renderFnr(at, inner) ==
    IF Attr(at, "ID") # undefined THEN FnrMarker(Attr(at, "ID"))
    ELSE IF Attr(at, "Id") # undefined THEN FnrMarker(Attr(at, "Id"))
    ELSE IF Attr(at, "id") # undefined THEN FnrMarker(Attr(at, "id"))
    ELSE inner \o FnrMarker(inner)

\* the switch of walk(), inner being the rendered children
renderTag(n, t, inner) ==
    IF t = "br" THEN <<"<", "b", "r", " ", "/", ">">>
    ELSE IF t = "fnr" THEN renderFnr(attrsOf(n), inner)
    ELSE InlineOpen(t) \o inner \o InlineClose(t)

RECURSIVE renderInlineToMd(_), renderWalk(_)
renderWalk(n) ==
    IF lname(n) = NoTag THEN textOf(n)
    ELSE renderTag(n, lname(n), renderInlineToMd(childrenOf(n)))
renderInlineToMd(ns) ==
    IF ns = <<>> THEN <<>>
    ELSE renderWalk(Head(ns)) \o renderInlineToMd(Tail(ns))

(***************************************************************************)
(* List-marker classifier.                                                 *)
(***************************************************************************)
\* /^\(?\d+\)?[.)]?$/
IsArabicMarker(m) ==
    LET i1 == SkipOpt(m, 1, {"("})
        i2 == SkipMany(m, i1, Digit)
        i3 == SkipOpt(m, i2, {")"})
        i4 == SkipOpt(m, i3, {".", ")"})
    IN  i2 > i1 /\ i4 = Len(m) + 1

\* /^[S]\)$/ for a one-character class S
IsOneOfThenParen(m, S) == Len(m) = 2 /\ m[1] \in S /\ m[2] = ")"

\* /^[S]+\)$/
IsManyOfThenParen(m, S) ==
    LET i1 == SkipMany(m, 1, S)
    IN  i1 > 1 /\ i1 = Len(m) /\ m[i1] = ")"

MarkerClass(kind, style, label, symbol) ==
    [kind |-> kind, style |-> style, label |-> label, symbol |-> symbol]

\* variant: the roman patterns are tried before the alphabetic ones
classifyMarkerRomanFirst(raw) ==
    LET m == Trim(raw)
    IN  IF IsArabicMarker(m) THEN MarkerClass("ordered", "arabic", m, undefined)
        ELSE IF IsManyOfThenParen(m, RomanLower)
        THEN MarkerClass("ordered", "roman-lower", m, undefined)
        ELSE IF IsManyOfThenParen(m, RomanUpper)
        THEN MarkerClass("ordered", "roman-upper", m, undefined)
        ELSE IF IsOneOfThenParen(m, Lower)
        THEN MarkerClass("ordered", "alpha-lower", m, undefined)
        ELSE IF IsOneOfThenParen(m, Upper)
        THEN MarkerClass("ordered", "alpha-upper", m, undefined)
        ELSE IF m = <<"BULLET">>
        THEN MarkerClass("unordered", "bullet", undefined, undefined)
        ELSE IF m = <<"-">> \/ m = <<"ENDASH">> \/ m = <<"EMDASH">>
        THEN MarkerClass("unordered", "dash", undefined, undefined)
        ELSE MarkerClass("unordered", "custom", undefined, m)

classifyMarker(raw) ==
    LET m == Trim(raw)
    IN  IF IsArabicMarker(m) THEN MarkerClass("ordered", "arabic", m, undefined)
        ELSE IF IsOneOfThenParen(m, Lower)
        THEN MarkerClass("ordered", "alpha-lower", m, undefined)
        ELSE IF IsOneOfThenParen(m, Upper)
        THEN MarkerClass("ordered", "alpha-upper", m, undefined)
        ELSE IF IsManyOfThenParen(m, RomanLower)
        THEN MarkerClass("ordered", "roman-lower", m, undefined)
        ELSE IF IsManyOfThenParen(m, RomanUpper)
        THEN MarkerClass("ordered", "roman-upper", m, undefined)
        ELSE IF m = <<"BULLET">>
        THEN MarkerClass("unordered", "bullet", undefined, undefined)
        ELSE IF m = <<"-">> \/ m = <<"ENDASH">> \/ m = <<"EMDASH">>
        THEN MarkerClass("unordered", "dash", undefined, undefined)
        ELSE MarkerClass("unordered", "custom", undefined, m)

(***************************************************************************)
(* Lists and paragraphs (mutually recursive).                              *)
(***************************************************************************)
Dot == <<".">>

MdRun(md) == [type |-> "md", md |-> md]

\* flushText(): push the trimmed text buffer as a TextRun unless it is empty
flushText(out, textBuf) ==
    LET md == Trim(textBuf)
    IN  IF md # <<>> THEN Append(out, MdRun(md)) ELSE out

\* the loop state of parseList
ListState(its, pm, kind, style, symbol, b) ==
    [items |-> its, pendingMarker |-> pm, listKind |-> kind,
     listStyle |-> style, listSymbol |-> symbol, buf |-> b]

ListState0 == ListState(<<>>, undefined, "unordered", "custom", undefined, <<>>)

\* the id of a list item: idPrefix "." first digit run of the marker
ItemId(prefix, pm) ==
    IF Truthy(prefix) /\ Truthy(pm) /\ MatchDigits(pm) # undefined
    THEN prefix \o Dot \o MatchDigits(pm)
    ELSE undefined

\* variant: the id counts the items instead of reading the marker
flushCounting(st, prefix) ==
    IF st.pendingMarker = undefined /\ st.buf = <<>> THEN st
    ELSE LET pm == st.pendingMarker
             li == [type |-> "li",
                    label |-> IF Truthy(pm) THEN pm ELSE undefined,
                    id |-> IF Truthy(prefix) /\ Truthy(pm)
                              /\ MatchDigits(pm) # undefined
                           THEN prefix \o Dot
                                \o <<<<"1", "2", "3", "4", "5", "6", "7", "8",
                                       "9">>[Len(st.items) + 1]>>
                           ELSE undefined,
                    children |-> st.buf]
         IN  [st EXCEPT !.items = Append(@, li),
                        !.pendingMarker = undefined,
                        !.buf = <<>>]

flush(st, prefix) ==
    IF st.pendingMarker = undefined /\ st.buf = <<>> THEN st
    ELSE LET pm == st.pendingMarker
             li == [type |-> "li",
                    label |-> IF Truthy(pm) THEN pm ELSE undefined,
                    id |-> ItemId(prefix, pm),
                    children |-> st.buf]
         IN  [st EXCEPT !.items = Append(@, li),
                        !.pendingMarker = undefined,
                        !.buf = <<>>]

\* the id prefix handed to a list or paragraph nested in the pending item
NestedPrefix(prefix, pm) ==
    IF Truthy(prefix) /\ Truthy(pm)
    THEN prefix \o Dot \o
         (IF MatchDigits(pm) # undefined THEN MatchDigits(pm) ELSE <<"1">>)
    ELSE prefix

\* /^\s*\((\d+)\)\s*/ : [ok, num, len] with len the length of the match
MatchParaNum(s) ==
    LET i1 == SkipMany(s, 1, WhiteSpace)
        i3 == SkipMany(s, i1 + 1, Digit)
        i4 == SkipMany(s, i3 + 1, WhiteSpace)
    IN  IF i1 <= Len(s) /\ s[i1] = "(" /\ i3 > i1 + 1
           /\ i3 <= Len(s) /\ s[i3] = ")"
        THEN [ok |-> TRUE, num |-> SubSeq(s, i1 + 1, i3 - 1), len |-> i4 - 1]
        ELSE [ok |-> FALSE, num |-> undefined, len |-> 0]

\* the first text child of a paragraph that starts with "(n)": n, or undefined
RECURSIVE FindParagraphNumber(_)
FindParagraphNumber(ks) ==
    IF ks = <<>> THEN undefined
    ELSE IF isTextNode(Head(ks)) /\ MatchParaNum(Trim(textOf(Head(ks)))).ok
         THEN MatchParaNum(Trim(textOf(Head(ks)))).num
         ELSE FindParagraphNumber(Tail(ks))

RECURSIVE parseList(_, _), parseParagraph(_, _), DdParts(_, _, _, _, _),
          ListLoop(_, _, _), ParaLoop(_, _, _, _)

\* the loop over the parts of one <dd>/<la>: the item buffer after it
DdParts(parts, b, textBuf, prefix, pm) ==
    IF parts = <<>> THEN flushText(b, textBuf)
    ELSE LET part == Head(parts)
             pt == lname(part)
         IN  IF pt = NoTag
             THEN DdParts(Tail(parts), b, textBuf \o textOf(part), prefix, pm)
             ELSE IF pt = "dl"
             THEN DdParts(Tail(parts),
                          Append(flushText(b, textBuf),
                                 parseList(part, NestedPrefix(prefix, pm))),
                          <<>>, prefix, pm)
             ELSE IF pt = "p"
             THEN DdParts(Tail(parts),
                          Append(flushText(b, textBuf),
                                 parseParagraph(part, NestedPrefix(prefix, pm))),
                          <<>>, prefix, pm)
             ELSE DdParts(Tail(parts), b,
                          textBuf \o renderInlineToMd(<<part>>), prefix, pm)

\* listKind = c.kind; listStyle = c.style; listSymbol = c.symbol
SetClass(st, c) ==
    [st EXCEPT !.listKind = c.kind, !.listStyle = c.style,
               !.listSymbol = c.symbol]

\* variant: every <dt> classifies the list again
HoldMarkerEvery(s1, markerText) ==
    [SetClass(s1, classifyMarker(markerText)) EXCEPT !.pendingMarker = markerText]

\* a <dt> after the flush: classify the first marker, hold the marker
HoldMarker(s1, markerText) ==
    [(IF s1.items = <<>> THEN SetClass(s1, classifyMarker(markerText)) ELSE s1)
        EXCEPT !.pendingMarker = markerText]

\* one iteration of the loop of parseList on a <dt>
ListDt(st, node, prefix) ==
    HoldMarker(flush(st, prefix), Trim(renderInlineToMd(childrenOf(node))))

\* variant: a definition replaces what the item has accumulated
ListDdLatest(st, node, prefix) ==
    [st EXCEPT !.buf = DdParts(childrenOf(node), <<>>, <<>>, prefix,
                               st.pendingMarker)]

\* one iteration of the loop of parseList on a <dd> or <la>
ListDd(st, node, prefix) ==
    [st EXCEPT !.buf = DdParts(childrenOf(node), @, <<>>, prefix,
                               st.pendingMarker)]

\* one iteration of the loop of parseList
ListStep(st, node, prefix) ==
    LET t == lname(node)
    IN  IF t = "dt" THEN ListDt(st, node, prefix)
        ELSE IF t = "dd" \/ t = "la" THEN ListDd(st, node, prefix)
        ELSE st

ListLoop(ks, st, prefix) ==
    IF ks = <<>> THEN st
    ELSE ListLoop(Tail(ks), ListStep(st, Head(ks), prefix), prefix)

\* delete it.label
DeleteLabel(it) == [it EXCEPT !.label = undefined]

\* if (listKind === "unordered") for (const it of items) delete it.label
FinalItems(s1) ==
    IF s1.listKind = "unordered"
    THEN [j \in 1..Len(s1.items) |-> DeleteLabel(s1.items[j])]
    ELSE s1.items

\* the returned ListNode, s1 being the loop state after the last flush
ListNodeOf(s1) ==
    [type |-> "list", kind |-> s1.listKind, style |-> s1.listStyle,
     symbol |-> IF s1.listKind = "unordered" /\ s1.listStyle = "custom"
                   /\ Truthy(s1.listSymbol)
                THEN s1.listSymbol ELSE undefined,
     children |-> FinalItems(s1)]

\* the tail of parseList: the last flush, the label deletion, the ListNode
ListResult(st, prefix) == ListNodeOf(flush(st, prefix))

parseList(dl, prefix) ==
    ListResult(ListLoop(childrenOf(dl), ListState0, prefix), prefix)

\* the second loop of parseParagraph: the children after it
ParaLoop(ks, out, textBuf, paragraphId) ==
    IF ks = <<>> THEN flushText(out, textBuf)
    ELSE LET t == lname(Head(ks))
         IN  IF t = NoTag
             THEN ParaLoop(Tail(ks), out, textBuf \o textOf(Head(ks)),
                           paragraphId)
             ELSE IF t = "dl"
             THEN ParaLoop(Tail(ks),
                           Append(flushText(out, textBuf),
                                  parseList(Head(ks), paragraphId)),
                           <<>>, paragraphId)
             ELSE ParaLoop(Tail(ks), out,
                           textBuf \o renderInlineToMd(<<Head(ks)>>),
                           paragraphId)

\* the id context of a paragraph: the prefix extended by its number
ParagraphId(prefix, paragraphNumber) ==
    IF paragraphNumber = undefined THEN prefix
    ELSE IF Truthy(prefix) THEN prefix \o Dot \o paragraphNumber
    ELSE paragraphNumber

\* md.slice(m[0].length) for the leading "(n)" of md
StripParaNum(md) == SubSeq(md, MatchParaNum(md).len + 1, Len(md))

\* the tail of parseParagraph: strip the number from the first TextRun
ParagraphResult(outChildren, paragraphNumber, paragraphId) ==
    IF outChildren # <<>> /\ outChildren[1].type = "md"
       /\ paragraphNumber # undefined /\ MatchParaNum(outChildren[1].md).ok
    THEN [type |-> "p",
          label |-> <<"(">> \o paragraphNumber \o <<")">>,
          id |-> paragraphId,
          children |-> [outChildren EXCEPT
                           ![1] = MdRun(StripParaNum(outChildren[1].md))]]
    ELSE [type |-> "p", label |-> undefined, id |-> undefined,
          children |-> outChildren]

\* parseParagraph once the paragraph number is known
ParagraphWith(ks, paragraphNumber, paragraphId) ==
    ParagraphResult(ParaLoop(ks, <<>>, <<>>, paragraphId),
                    paragraphNumber, paragraphId)

parseParagraph(p, prefix) ==
    ParagraphWith(childrenOf(p), FindParagraphNumber(childrenOf(p)),
                  ParagraphId(prefix, FindParagraphNumber(childrenOf(p))))

(***************************************************************************)
(* Tables.                                                                 *)
(***************************************************************************)
parseTable(tbl) ==
    LET rs == allChildren(tbl, "row")
        Cells(row) ==
            LET es == allChildren(row, "entry")
            IN  [j \in 1..Len(es) |->
                    Trim(renderInlineToMd(childrenOf(es[j])))]
    IN  [type |-> "table", rows |-> [j \in 1..Len(rs) |-> Cells(rs[j])]]

(***************************************************************************)
(* TableParser.parse(): <table> -> <tgroup> -> <thead>/<tbody> -> <row>    *)
(* -> <entry>.  A cell is the bare string (here the record holding only    *)
(* its content) or an object of content and colspan.                       *)
(***************************************************************************)
\* the Map of column names to the 0-based place of their <colspec>; a later
\* colspec of the same name overwrites, one without a name is skipped
colNameToIndex(colSpecs) ==
    LET nameAt(j) == Attr(attrsOf(colSpecs[j]), "colname")
        named == {j \in 1..Len(colSpecs) : Truthy(nameAt(j))}
    IN  [n \in {nameAt(j) : j \in named} |->
            (CHOOSE j \in named :
                /\ nameAt(j) = n
                /\ \A j2 \in named : nameAt(j2) = n => j2 <= j) - 1]

\* variant: the span leaves out the end column
colspanOfExclusive(attrs, index) ==
    LET namest == Attr(attrs, "namest")
        nameend == Attr(attrs, "nameend")
    IN  IF Truthy(namest) /\ Truthy(nameend)
           /\ namest \in DOMAIN index /\ nameend \in DOMAIN index
        THEN index[nameend] - index[namest]
        ELSE 1

colspanOf(attrs, index) ==
    LET namest == Attr(attrs, "namest")
        nameend == Attr(attrs, "nameend")
    IN  IF Truthy(namest) /\ Truthy(nameend)
           /\ namest \in DOMAIN index /\ nameend \in DOMAIN index
        THEN index[nameend] - index[namest] + 1
        ELSE 1

\* variant: every cell is an object with its span
CellOfAlways(content, span) == [content |-> content, colspan |-> span]

\* the cell pushed for a content and a span: an object only above 1
CellOf(content, span) ==
    IF span > 1 THEN [content |-> content, colspan |-> span]
    ELSE [content |-> content]

parseRow(row, index) ==
    LET es == allChildren(row, "entry")
    IN  [j \in 1..Len(es) |->
            CellOf(Trim(renderInlineToMd(childrenOf(es[j]))),
                   colspanOf(attrsOf(es[j]), index))]

\* the header cells one <tgroup> offers: the first row of its first <thead>
HeaderOfGroup(tgroup) ==
    LET theadSections == allChildren(tgroup, "thead")
    IN  IF theadSections = <<>> THEN <<>>
        ELSE LET headerRows == allChildren(theadSections[1], "row")
             IN  IF headerRows = <<>> THEN <<>>
                 ELSE parseRow(headerRows[1],
                               colNameToIndex(allChildren(tgroup, "colspec")))

\* headers: set once, by the first group that offers at least one cell
RECURSIVE tableHeaders(_)
tableHeaders(tgroups) ==
    IF tgroups = <<>> THEN <<>>
    ELSE IF HeaderOfGroup(Head(tgroups)) # <<>>
         THEN HeaderOfGroup(Head(tgroups))
         ELSE tableHeaders(Tail(tgroups))

\* variant: the rows of a later <tbody> come before those of an earlier one
RECURSIVE tbodyRowsNewestFirst(_, _)
tbodyRowsNewestFirst(tbodySections, index) ==
    IF tbodySections = <<>> THEN <<>>
    ELSE LET rs == allChildren(Head(tbodySections), "row")
         IN  tbodyRowsNewestFirst(Tail(tbodySections), index)
               \o [j \in 1..Len(rs) |-> parseRow(rs[j], index)]

\* the rows pushed for the <tbody> sections of one group
RECURSIVE tbodyRows(_, _)
tbodyRows(tbodySections, index) ==
    IF tbodySections = <<>> THEN <<>>
    ELSE LET rs == allChildren(Head(tbodySections), "row")
         IN  [j \in 1..Len(rs) |-> parseRow(rs[j], index)]
               \o tbodyRows(Tail(tbodySections), index)

RECURSIVE tableRows(_)
tableRows(tgroups) ==
    IF tgroups = <<>> THEN <<>>
    ELSE tbodyRows(allChildren(Head(tgroups), "tbody"),
                   colNameToIndex(allChildren(Head(tgroups), "colspec")))
           \o tableRows(Tail(tgroups))

\* the returned TableNode; the headers field exists only when set
TableNodeOf(headers, rows) ==
    IF headers # <<>>
    THEN [type |-> "table", headers |-> headers, rows |-> rows]
    ELSE [type |-> "table", rows |-> rows]

TableParser_parse(tbl) ==
    TableNodeOf(tableHeaders(allChildren(tbl, "tgroup")),
                tableRows(allChildren(tbl, "tgroup")))

(***************************************************************************)
(* Articles / Sections / Footnotes.                                        *)
(***************************************************************************)
\* the tail /\s*([\d]+[a-zA-Z]?)$/ of both citation patterns, from index i:
\* the captured group, or undefined
CaptureNumber(s, i) ==
    LET i2 == SkipMany(s, i, WhiteSpace)
        i3 == SkipMany(s, i2, Digit)
        i4 == SkipOpt(s, i3, Letter)
    IN  IF i3 > i2 /\ i4 = Len(s) + 1 THEN SubSeq(s, i2, Len(s)) ELSE undefined

\* s.match(/^\u00A7+\s*([\d]+[a-zA-Z]?)$/)
MatchSect(s) ==
    LET i1 == SkipMany(s, 1, {"SECT"})
    IN  IF i1 > 1 THEN CaptureNumber(s, i1) ELSE undefined

\* does s continue at index i with the lower-case word w, ignoring case
StartsWithAt(s, i, w) ==
    /\ Len(s) >= i + Len(w) - 1
    /\ \A j \in 1..Len(w) : toLowerCase(s[i + j - 1]) = w[j]

\* variant: only "Art." and "Artikel", as written, introduce the number
MatchArtStrict(s) ==
    IF Len(s) >= 4 /\ SubSeq(s, 1, 4) = <<"A", "r", "t", ".">>
    THEN CaptureNumber(s, 5)
    ELSE IF Len(s) >= 7
            /\ SubSeq(s, 1, 7) = <<"A", "r", "t", "i", "k", "e", "l">>
    THEN CaptureNumber(s, 8)
    ELSE undefined

\* s.match(/^Art(?:\.|ikel)?\s*([\d]+[a-zA-Z]?)$/i)
MatchArt(s) ==
    IF ~StartsWithAt(s, 1, <<"a", "r", "t">>) THEN undefined
    ELSE IF StartsWithAt(s, 4, <<".">>) THEN CaptureNumber(s, 5)
    ELSE IF StartsWithAt(s, 4, <<"i", "k", "e", "l">>) THEN CaptureNumber(s, 8)
    ELSE CaptureNumber(s, 4)

NoEnbez == [label |-> undefined, id |-> undefined]

\* the result of parseArticleEnbez from the captures of its two patterns
EnbezResult(m1, m2) ==
    IF m1 # undefined THEN [label |-> <<"SECT", " ">> \o m1, id |-> m1]
    ELSE IF m2 # undefined
    THEN [label |-> <<"A", "r", "t", ".", " ">> \o m2, id |-> m2]
    ELSE NoEnbez

parseArticleEnbez(raw) == EnbezResult(MatchSect(Trim(raw)), MatchArt(Trim(raw)))

\* at.ID ?? at.Id ?? at.id ?? ""
FootnoteRawId(at) ==
    IF Attr(at, "ID") # undefined THEN Attr(at, "ID")
    ELSE IF Attr(at, "Id") # undefined THEN Attr(at, "Id")
    ELSE IF Attr(at, "id") # undefined THEN Attr(at, "id")
    ELSE <<>>

RECURSIVE FootnotesOf(_)
FootnotesOf(fns) ==
    IF fns = <<>> THEN <<>>
    ELSE LET id == Trim(FootnoteRawId(attrsOf(Head(fns))))
         IN  (IF id = <<>> THEN <<>>
              ELSE <<[id |-> id,
                      md |-> Trim(renderInlineToMd(childrenOf(Head(fns))))]>>)
             \o FootnotesOf(Tail(fns))

collectFootnotes(norm) == FootnotesOf(allDesc(norm, "footnote"))

\* the children pushed for the direct children of one <content>
RECURSIVE ContentChildren(_, _)
ContentChildren(ks, prefix) ==
    IF ks = <<>> THEN <<>>
    ELSE LET t == lname(Head(ks))
         IN  (IF t = "p" THEN <<parseParagraph(Head(ks), prefix)>>
              ELSE IF t = "dl" THEN <<parseList(Head(ks), prefix)>>
              ELSE IF t = "table" THEN <<parseTable(Head(ks))>>
              ELSE <<>>)
             \o ContentChildren(Tail(ks), prefix)

\* the loop over allDesc(norm, "content")
RECURSIVE ContentsChildren(_, _)
ContentsChildren(contents, prefix) ==
    IF contents = <<>> THEN <<>>
    ELSE ContentChildren(childrenOf(Head(contents)), prefix)
         \o ContentsChildren(Tail(contents), prefix)

\* an Outline, Article or Section object; an absent field is undefined and
\* an absent footnote list is empty
StructNode(type, id, label, title, doknr, footnotes, children) ==
    [type |-> type, id |-> id, label |-> label, title |-> title,
     doknr |-> doknr, footnotes |-> footnotes, children |-> children]

Doknr(norm) ==
    LET d == Attr(attrsOf(norm), "doknr") IN IF Truthy(d) THEN d ELSE undefined

\* titleN ? textDeep(titleN) : undefined
OptText(n) == IF Present(n) THEN textDeep(n) ELSE undefined

\* parseArticle once the citation label is parsed
ArticleOf(norm, meta, parsed) ==
    IF parsed = NoEnbez THEN Null
    ELSE StructNode("article", parsed.id, parsed.label,
                    OptText(firstChild(meta, "titel")),
                    Doknr(norm),
                    collectFootnotes(norm),
                    ContentsChildren(allDesc(norm, "content"), parsed.id))

\* parseArticle after the lookup of metadaten and enbez
ArticleFrom(norm, meta, enbezN) ==
    IF ~Present(meta) THEN Null
    ELSE IF ~Present(enbezN) THEN Null
    ELSE ArticleOf(norm, meta, parseArticleEnbez(textDeep(enbezN)))

parseArticle(norm) ==
    ArticleFrom(norm, firstChild(norm, "metadaten"),
                firstChild(firstChild(norm, "metadaten"), "enbez"))

\* parseSection once the label text is known
SectionOf(norm, enbez) ==
    IF parseArticleEnbez(enbez) # NoEnbez THEN Null
    ELSE StructNode("section", undefined, undefined,
                    IF enbez # <<>> THEN enbez ELSE undefined,
                    Doknr(norm),
                    <<>>,
                    ContentsChildren(allDesc(norm, "content"), <<>>))

\* variant: a missing label element counts as an empty label
SectionFromAnyLabel(norm, meta, enbezN) ==
    IF ~Present(meta) THEN Null
    ELSE SectionOf(norm, IF Present(enbezN) THEN Trim(textDeep(enbezN))
                         ELSE <<>>)

\* parseSection after the lookup of metadaten and enbez
SectionFrom(norm, meta, enbezN) ==
    IF ~Present(meta) THEN Null
    ELSE IF ~Present(enbezN) THEN Null
    ELSE SectionOf(norm, Trim(textDeep(enbezN)))

parseSection(norm) ==
    SectionFrom(norm, firstChild(norm, "metadaten"),
                firstChild(firstChild(norm, "metadaten"), "enbez"))

(***************************************************************************)
(* Outline nodes.                                                          *)
(***************************************************************************)
NoOutline == [node |-> Null, level |-> 0]

\* codeN ? textDeep(codeN) : ""
TextOrEmpty(n) == IF Present(n) THEN textDeep(n) ELSE <<>>

\* parseOutline once code, label and title are read
OutlineOf(id, label, title) ==
    IF id = <<>> \/ label = <<>> THEN NoOutline
    ELSE [node |-> StructNode("outline", id, label,
                              IF Truthy(title) THEN title ELSE undefined,
                              undefined, <<>>, <<>>),
          level |-> levelFromCode(id)]

\* parseOutline after the lookup of metadaten and gliederungseinheit
OutlineFrom(meta, gl) ==
    IF ~Present(meta) THEN NoOutline
    ELSE IF ~Present(gl) THEN NoOutline
    ELSE OutlineOf(TextOrEmpty(firstChild(gl, "gliederungskennzahl")),
                   TextOrEmpty(firstChild(gl, "gliederungsbez")),
                   OptText(firstChild(gl, "gliederungstitel")))

parseOutline(norm) ==
    OutlineFrom(firstChild(norm, "metadaten"),
                firstChild(firstChild(norm, "metadaten"), "gliederungseinheit"))

(***************************************************************************)
(* Document metadata extraction.                                           *)
(***************************************************************************)
\* jurabk.replace(/\s+\d{4}$/, "")
StripYear(s) ==
    LET n == Len(s)
    IN  IF n >= 5 /\ (\A j \in (n - 3)..n : s[j] \in Digit)
           /\ s[n - 4] \in WhiteSpace
        THEN SubSeq(s, 1, SkipBack(s, n - 4, WhiteSpace))
        ELSE s

\* the title one record offers: langue, else kurzue, else titel
TitleFrom(lange, kurz, titel) ==
    IF Present(lange) THEN Trim(textDeep(lange))
    ELSE IF Present(kurz) THEN Trim(textDeep(kurz))
    ELSE IF Present(titel) THEN Trim(textDeep(titel))
    ELSE undefined

MetaTitle(meta) ==
    TitleFrom(firstChild(meta, "langue"), firstChild(meta, "kurzue"),
              firstChild(meta, "titel"))

\* variant: the abbreviation is assigned whenever a record has one
SetJurabkAlways(d, j) ==
    IF Present(j)
    THEN [d EXCEPT !.jurabk = StripYear(Trim(textDeep(j)))]
    ELSE d

\* if (!doc.jurabk) { ... doc.jurabk = jurabk.replace(/\s+\d{4}$/, "") }
SetJurabk(d, j) ==
    IF ~Truthy(d.jurabk) /\ Present(j)
    THEN [d EXCEPT !.jurabk = StripYear(Trim(textDeep(j)))]
    ELSE d

\* if (!doc.title) { ... doc.title = ... }
SetTitle(d, title) ==
    IF ~Truthy(d.title) /\ title # undefined THEN [d EXCEPT !.title = title]
    ELSE d

\* extractLawMetadata after the lookup of metadaten
MetadataFrom(meta, d) ==
    IF ~Present(meta) THEN d
    ELSE SetTitle(SetJurabk(d, firstChild(meta, "jurabk")), MetaTitle(meta))

extractLawMetadata(norm, d) == MetadataFrom(firstChild(norm, "metadaten"), d)

(***************************************************************************)
(* Main conversion.                                                        *)
(***************************************************************************)
collectNorms(root) == allDescSeq(root, "norm")

\* while (stack.length >= level) stack.pop();
RECURSIVE PopWhile(_, _)
PopWhile(stk, level) ==
    IF Len(stk) >= level
    THEN PopWhile(SubSeq(stk, 1, Len(stk) - 1), level)
    ELSE stk

\* variant: a node put under the stack top is put under the document too
AttachTwice(d, heap, stk, node) ==
    LET ref == Len(heap) + 1
    IN  IF stk # <<>>
        THEN <<[d EXCEPT !.children = Append(@, ref)],
               Append([heap EXCEPT ![stk[Len(stk)]].children = Append(@, ref)],
                      node)>>
        ELSE <<[d EXCEPT !.children = Append(@, ref)], Append(heap, node)>>

\* variant: the new node is put in front of its siblings
AttachFirst(d, heap, stk, node) ==
    LET ref == Len(heap) + 1
    IN  IF stk # <<>>
        THEN <<d, Append([heap EXCEPT ![stk[Len(stk)]].children = <<ref>> \o @],
                         node)>>
        ELSE <<[d EXCEPT !.children = <<ref>> \o @], Append(heap, node)>>

\* push a reference to a new node into the children of the stack top, or of
\* the document when the stack is empty: the new <<doc, nodes>>
Attach(d, heap, stk, node) ==
    LET ref == Len(heap) + 1
    IN  IF stk # <<>>
        THEN <<d, Append([heap EXCEPT ![stk[Len(stk)]].children = Append(@, ref)],
                         node)>>
        ELSE <<[d EXCEPT !.children = Append(@, ref)], Append(heap, node)>>

(***************************************************************************)
(* Inputs.                                                                 *)
(***************************************************************************)
\* all sequences of at most n elements of S
SeqsUpTo(S, n) == UNION {[1..m -> S] : m \in 0..n}

TextEl(t, s) == El(t, <<Text(s)>>)

Gl(code, label) ==
    El("gliederungseinheit", <<TextEl("gliederungskennzahl", code),
                               TextEl("gliederungsbez", label)>>)

\* <norm doknr=...><metadaten>...</metadaten>
\*   <textdaten><text><content>...</content></text></textdaten></norm>
MkNorm(doknr, metaKids, contentKids) ==
    ElA("norm", [doknr |-> doknr],
        <<El("metadaten", metaKids),
          El("textdaten", <<El("text", <<El("content", contentKids)>>)>>)>>)

CodeL1  == <<"0", "5">>
CodeL1b == <<"0", "6">>
CodeL2  == <<"0", "5", "0", "0", "3", "0">>
CodeL3  == <<"0", "5", "0", "0", "3", "0", "0", "1">>

DlOrdered ==
    El("dl", <<TextEl("dt", <<"1", ".">>), TextEl("dd", <<"a">>),
               TextEl("dt", <<"2", ".">>), TextEl("dd", <<"b">>)>>)

ParaNumbered == El("p", <<Text(<<"(", "1", ")", " ", "x">>), DlOrdered>>)
ParaPlain    == El("p", <<Text(<<"y">>), El("b", <<Text(<<"z">>)>>)>>)
TableOne     ==
    El("table", <<El("row", <<TextEl("entry", <<"c">>)>>)>>)

\* the records of the documents the assembler is run on
NormO1 ==
    MkNorm(<<"d", "1">>,
           <<TextEl("jurabk", <<"A", "B", " ", "2", "0", "0", "9">>),
             TextEl("langue", <<"L", "1">>),
             Gl(CodeL1, <<"B", "1">>)>>, <<>>)
NormO1b == MkNorm(<<"d", "2">>, <<Gl(CodeL1b, <<"B", "2">>)>>, <<>>)
NormO2  == MkNorm(<<"d", "3">>, <<Gl(CodeL2, <<"K", "1">>)>>, <<>>)
NormO3  ==
    MkNorm(<<"d", "4">>,
           <<TextEl("jurabk", <<"C", "D">>), Gl(CodeL3, <<"T", "1">>)>>, <<>>)
NormArt ==
    MkNorm(<<"d", "5">>,
           <<TextEl("enbez", <<"SECT", " ", "1">>), TextEl("titel", <<"T">>)>>,
           <<ParaNumbered, ParaPlain, TableOne>>)
NormArtMeta ==
    MkNorm(<<"d", "6">>,
           <<El("jurabk", <<>>), El("langue", <<>>),
             TextEl("kurzue", <<"K">>),
             TextEl("enbez", <<"A", "r", "t", ".", " ", "2", "a">>)>>,
           <<ParaPlain>>)
NormSec ==
    MkNorm(<<"d", "7">>,
           <<TextEl("enbez", <<"T", "O", "C">>), TextEl("kurzue", <<"K", "2">>)>>,
           <<DlOrdered>>)
NormEmptyEnbez ==
    MkNorm(<<"d", "8">>, <<El("enbez", <<>>)>>, <<ParaPlain>>)
NormNoEnbez ==
    MkNorm(<<"d", "9">>,
           <<TextEl("jurabk", <<"E", "F">>), TextEl("titel", <<"T", "2">>)>>,
           <<ParaPlain>>)
NormNoMeta == ElA("norm", [doknr |-> <<"d", "0">>], <<>>)

NormSet == {NormO1, NormO1b, NormO2, NormO3, NormArt, NormArtMeta, NormSec,
            NormEmptyEnbez, NormNoEnbez, NormNoMeta}

Document(ns) == <<El("dokumente", ns)>>

(***************************************************************************)
(* convert(): the state machine of the assembler.                          *)
(***************************************************************************)
ListIdle ==
    /\ kids = <<>> /\ idPrefix = <<>> /\ k = 0 /\ items = <<>>
    /\ pendingMarker = undefined /\ listKind = "unordered"
    /\ listStyle = "custom" /\ listSymbol = undefined /\ buf = <<>>
    /\ listOut = Null

FnIdle == call = [op |-> "none", arg |-> <<>>] /\ ret = Null

AsmIdle ==
    /\ po = <<>> /\ norms = <<>> /\ pc = "idle" /\ ni = 0
    /\ doc = [jurabk |-> undefined, title |-> undefined, children |-> <<>>]
    /\ nodes = <<>> /\ stack = <<>>

InitOn(docs) ==
    /\ po \in docs
    /\ norms = <<>> /\ pc = "start" /\ ni = 0
    /\ doc = [jurabk |-> undefined, title |-> undefined, children |-> <<>>]
    /\ nodes = <<>> /\ stack = <<>>
    /\ ListIdle /\ FnIdle

Init == InitOn({Document(ns) : ns \in SeqsUpTo(NormSet, MaxNorms)})

\* parse, collectNorms, and the empty document and stack
Start ==
    /\ pc = "start"
    /\ norms' = collectNorms(po)
    /\ doc' = [jurabk |-> undefined, title |-> undefined, children |-> <<>>]
    /\ stack' = <<>>
    /\ pc' = "meta" /\ ni' = 1
    /\ UNCHANGED <<po, nodes>> /\ UNCHANGED listVars /\ UNCHANGED fnVars

\* one iteration of the first loop: extract metadata, stop once both are set
MetaStep ==
    /\ pc = "meta" /\ ni <= Len(norms)
    /\ doc' = extractLawMetadata(norms[ni], doc)
    /\ IF Truthy(doc'.jurabk) /\ Truthy(doc'.title)
       THEN pc' = "main" /\ ni' = 1
       ELSE pc' = pc /\ ni' = ni + 1
    /\ UNCHANGED <<po, norms, nodes, stack>>
    /\ UNCHANGED listVars /\ UNCHANGED fnVars

\* the first loop runs off the end of norms
MetaEnd ==
    /\ pc = "meta" /\ ni > Len(norms)
    /\ pc' = "main" /\ ni' = 1
    /\ UNCHANGED <<po, norms, doc, nodes, stack>>
    /\ UNCHANGED listVars /\ UNCHANGED fnVars

\* the dispatch of one record by the main loop: the parsers are tried in the
\* order Outline, Article, Section, and the first that succeeds decides
DispatchOf(o, a, s) ==
    IF o # NoOutline THEN [kind |-> "outline", node |-> o.node, level |-> o.level]
    ELSE IF a # Null THEN [kind |-> "article", node |-> a, level |-> 0]
    ELSE IF s # Null THEN [kind |-> "section", node |-> s, level |-> 0]
    ELSE [kind |-> "skip", node |-> Null, level |-> 0]

Dispatch(norm) ==
    DispatchOf(parseOutline(norm), parseArticle(norm), parseSection(norm))

\* pop, attach, push, then the metadata: the new <<doc, nodes, stack>>
PlaceOutline(d, heap, stk, node, norm) ==
    <<extractLawMetadata(norm, Attach(d, heap, stk, node)[1]),
      Attach(d, heap, stk, node)[2],
      Append(stk, Len(heap) + 1)>>

\* one iteration of the main loop on a record that parses as an Outline
OutlineStep ==
    /\ pc = "main" /\ ni <= Len(norms)
    /\ \E d \in {Dispatch(norms[ni])} :
          /\ d.kind = "outline"
          /\ \E r \in {PlaceOutline(doc, nodes, PopWhile(stack, d.level),
                                     d.node, norms[ni])} :
                doc' = r[1] /\ nodes' = r[2] /\ stack' = r[3]
    /\ ni' = ni + 1
    /\ UNCHANGED <<po, norms, pc>> /\ UNCHANGED listVars /\ UNCHANGED fnVars

\* variant: the attached node is also left open on the stack
PushIntoOpen(norm, node) ==
    \E r \in {Attach(extractLawMetadata(norm, doc), nodes, stack, node)} :
        doc' = r[1] /\ nodes' = r[2] /\ stack' = Append(stack, Len(nodes) + 1)

\* extractLawMetadata(norm, doc); pushInto(node): the stack is not touched
PushInto(norm, node) ==
    \E r \in {Attach(extractLawMetadata(norm, doc), nodes, stack, node)} :
        doc' = r[1] /\ nodes' = r[2] /\ UNCHANGED stack

\* ... on a record that parses as an Article
ArticleStep ==
    /\ pc = "main" /\ ni <= Len(norms)
    /\ \E d \in {Dispatch(norms[ni])} :
          d.kind = "article" /\ PushInto(norms[ni], d.node)
    /\ ni' = ni + 1
    /\ UNCHANGED <<po, norms, pc>> /\ UNCHANGED listVars /\ UNCHANGED fnVars

\* ... on a record that parses as a Section
SectionStep ==
    /\ pc = "main" /\ ni <= Len(norms)
    /\ \E d \in {Dispatch(norms[ni])} :
          d.kind = "section" /\ PushInto(norms[ni], d.node)
    /\ ni' = ni + 1
    /\ UNCHANGED <<po, norms, pc>> /\ UNCHANGED listVars /\ UNCHANGED fnVars

\* ... on any other record: ignored
SkipStep ==
    /\ pc = "main" /\ ni <= Len(norms)
    /\ Dispatch(norms[ni]).kind = "skip"
    /\ ni' = ni + 1
    /\ UNCHANGED <<po, norms, pc, doc, nodes, stack>>
    /\ UNCHANGED listVars /\ UNCHANGED fnVars

\* return doc
Return ==
    /\ pc = "main" /\ ni > Len(norms)
    /\ pc' = "done"
    /\ UNCHANGED <<po, norms, ni, doc, nodes, stack>>
    /\ UNCHANGED listVars /\ UNCHANGED fnVars

Next ==
    \/ Start \/ MetaStep \/ MetaEnd
    \/ OutlineStep \/ ArticleStep \/ SectionStep \/ SkipStep \/ Return

Spec == Init /\ [][Next]_vars

\* The loop control of convert(): what each step of Next does to the position
\* in the code and to the record index.  Start enters the first loop; the first
\* loop takes its next record or leaves for the main loop; the main loop takes
\* its next record, whatever the record parses as; after the last record
\* convert() returns.
LoopControl ==
    \/ pc = "start" /\ pc' = "meta" /\ ni' = 1
    \/ pc = "meta" /\ ni <= Len(norms)
          /\ ((pc' = "main" /\ ni' = 1) \/ (pc' = pc /\ ni' = ni + 1))
    \/ pc = "meta" /\ ni > Len(norms) /\ pc' = "main" /\ ni' = 1
    \/ pc = "main" /\ ni <= Len(norms) /\ pc' = pc /\ ni' = ni + 1
    \/ pc = "main" /\ ni > Len(norms) /\ pc' = "done" /\ ni' = ni

\* convert() is one synchronous call: a loop that can take its next iteration
\* takes it.  The fairness is put on the loop control, which is enabled in the
\* states where Next is: the dispatch of a record ends in an else branch, so
\* one of the four main-loop steps can always be taken.
SpecFair == Spec /\ WF_<<pc, ni>>(LoopControl)

(***************************************************************************)
(* parseList(): the loop over the children of one <dl>, step by step.      *)
(***************************************************************************)
\* the children of the <dl> elements the list parser is run on
DlKidSet ==
    {TextEl("dt", <<"1", ".">>), TextEl("dt", <<"2", ".">>),
     TextEl("dt", <<"a", ")">>), TextEl("dt", <<"BULLET">>),
     El("dt", <<>>),
     TextEl("dd", <<"x">>),
     El("dd", <<Text(<<"y">>), DlOrdered>>),
     El("dd", <<ParaNumbered>>),
     TextEl("la", <<"z">>),
     Text(<<"\n">>)}

PrefixSet == {<<>>, <<"4">>}

InitList ==
    /\ kids \in SeqsUpTo(DlKidSet, MaxDlKids)
    /\ idPrefix \in PrefixSet
    /\ k = 1
    /\ items = <<>> /\ pendingMarker = undefined
    /\ listKind = "unordered" /\ listStyle = "custom" /\ listSymbol = undefined
    /\ buf = <<>>
    /\ listOut = Null
    /\ AsmIdle /\ FnIdle

\* the locals of parseList as one loop state
LoopState ==
    ListState(items, pendingMarker, listKind, listStyle, listSymbol, buf)

SetLoopState(st) ==
    /\ items' = st.items /\ pendingMarker' = st.pendingMarker
    /\ listKind' = st.listKind /\ listStyle' = st.listStyle
    /\ listSymbol' = st.listSymbol /\ buf' = st.buf

\* one iteration on a <dt>
ListDtStep ==
    /\ k <= Len(kids) /\ lname(kids[k]) = "dt"
    /\ \E st \in {ListDt(LoopState, kids[k], idPrefix)} : SetLoopState(st)
    /\ k' = k + 1
    /\ UNCHANGED <<kids, idPrefix, listOut>>
    /\ UNCHANGED asmVars /\ UNCHANGED fnVars

\* one iteration on a <dd> or <la>
ListDdStep ==
    /\ k <= Len(kids) /\ lname(kids[k]) \in {"dd", "la"}
    /\ \E st \in {ListDd(LoopState, kids[k], idPrefix)} : SetLoopState(st)
    /\ k' = k + 1
    /\ UNCHANGED <<kids, idPrefix, listOut>>
    /\ UNCHANGED asmVars /\ UNCHANGED fnVars

\* one iteration on any other child: nothing happens
ListOtherStep ==
    /\ k <= Len(kids) /\ lname(kids[k]) \notin {"dt", "dd", "la"}
    /\ k' = k + 1
    /\ UNCHANGED <<kids, idPrefix, items, pendingMarker, listKind, listStyle,
                   listSymbol, buf, listOut>>
    /\ UNCHANGED asmVars /\ UNCHANGED fnVars

\* after the loop: the last flush, the label deletion, the returned ListNode
ListReturn ==
    /\ k > Len(kids) /\ listOut = Null
    /\ \E st \in {flush(LoopState, idPrefix)} :
          /\ items' = FinalItems(st)
          /\ pendingMarker' = st.pendingMarker
          /\ buf' = st.buf
          /\ listOut' = ListNodeOf(st)
    /\ UNCHANGED <<kids, idPrefix, k, listKind, listStyle, listSymbol>>
    /\ UNCHANGED asmVars /\ UNCHANGED fnVars

NextList == ListDtStep \/ ListDdStep \/ ListOtherStep \/ ListReturn

SpecList == InitList /\ [][NextList]_vars

(***************************************************************************)
(* classifyMarker(): one call on any short marker.                         *)
(***************************************************************************)
MarkerChars ==
    {"1", "2", "(", ")", ".", "a", "i", "v", "A", "I", "x",
     "BULLET", "-", "ENDASH", "EMDASH", " "}

InitMarker ==
    /\ call \in {[op |-> "classifyMarker", arg |-> m] :
                    m \in SeqsUpTo(MarkerChars, MaxMarkerLen)}
    /\ ret = Null
    /\ AsmIdle /\ ListIdle

ClassifyCall ==
    /\ call.op = "classifyMarker" /\ ret = Null
    /\ ret' = classifyMarker(call.arg)
    /\ UNCHANGED call /\ UNCHANGED asmVars /\ UNCHANGED listVars

NextMarker == ClassifyCall

SpecMarker == InitMarker /\ [][NextMarker]_vars

(***************************************************************************)
(* parseList() on lists whose markers share their digits.                  *)
(***************************************************************************)
IdKidSet ==
    {TextEl("dt", <<"1", ".">>), TextEl("dt", <<"1", "a", ".">>),
     TextEl("dt", <<"2", ".">>), TextEl("dt", <<"a", ")">>),
     TextEl("dd", <<"x">>), Text(<<"\n">>)}

InitIds ==
    /\ kids \in SeqsUpTo(IdKidSet, MaxDlKids)
    /\ idPrefix \in PrefixSet
    /\ k = 1
    /\ items = <<>> /\ pendingMarker = undefined
    /\ listKind = "unordered" /\ listStyle = "custom" /\ listSymbol = undefined
    /\ buf = <<>>
    /\ listOut = Null
    /\ AsmIdle /\ FnIdle

SpecIds == InitIds /\ [][NextList]_vars

(***************************************************************************)
(* parseList() on lists with empty terms, empty and wrapped definitions.   *)
(***************************************************************************)
TermKidSet ==
    {TextEl("dt", <<"1", ".">>), TextEl("dt", <<"a", ")">>), El("dt", <<>>),
     TextEl("dd", <<"x">>), TextEl("dd", <<"y">>), El("dd", <<>>),
     TextEl("la", <<" ">>), El("dd", <<Text(<<"y">>), DlOrdered>>),
     El("dd", <<El("la", <<Text(<<"y">>), DlOrdered>>)>>),
     Text(<<"\n">>)}

InitTerms ==
    /\ kids \in SeqsUpTo(TermKidSet, MaxDlKids)
    /\ idPrefix \in PrefixSet
    /\ k = 1
    /\ items = <<>> /\ pendingMarker = undefined
    /\ listKind = "unordered" /\ listStyle = "custom" /\ listSymbol = undefined
    /\ buf = <<>>
    /\ listOut = Null
    /\ AsmIdle /\ FnIdle

SpecTerms == InitTerms /\ [][NextList]_vars

(***************************************************************************)
(* The assembler on records with every kind of citation label.             *)
(***************************************************************************)
LabelHeads ==
    {<<>>, <<"SECT">>, <<"SECT", "SECT">>, <<"SECT", "SECT", "SECT">>,
     <<"A", "r", "t">>, <<"A", "r", "t", ".">>,
     <<"A", "r", "t", "i", "k", "e", "l">>,
     <<"a", "r", "t", ".">>, <<"A", "R", "T", "I", "K", "E", "L">>,
     <<"A", "r">>, <<"A", "r", "t", "i", "k", "e">>, <<"A", "n", "l", ".">>,
     <<"T", "O", "C">>}
LabelGaps  == {<<>>, <<" ">>}
LabelTails ==
    {<<>>, <<"5">>, <<"1", "4">>, <<"1", "4", "a">>, <<"5", "B">>,
     <<"5", "a", "b">>, <<"a">>, <<"5", ".">>}

LabelSet == {h \o g \o t : h \in LabelHeads, g \in LabelGaps, t \in LabelTails}

\* a record whose citation label element holds the text l
NormLabelled(l) ==
    MkNorm(<<"d", "5">>,
           <<El("enbez", IF l = <<>> THEN <<>> ELSE <<Text(l)>>),
             TextEl("titel", <<"T">>)>>,
           <<ParaPlain>>)

InitLabel ==
    InitOn({Document(pre \o <<NormLabelled(l)>>) :
               pre \in {<<>>, <<NormO1>>, <<NormNoEnbez>>}, l \in LabelSet})

SpecLabel == InitLabel /\ [][Next]_vars

(***************************************************************************)
(* The assembler on records that hold footnotes.                           *)
(***************************************************************************)
\* footnote definitions: with an id under either spelling, with a blank id,
\* with none
FootnoteSet ==
    {ElA("footnote", [ID |-> <<"F", "1">>], <<Text(<<"n">>)>>),
     ElA("footnote", [id |-> <<"f", "2">>], <<Text(<<"m">>)>>),
     ElA("footnote", [ID |-> <<" ">>], <<Text(<<"o">>)>>),
     El("footnote", <<Text(<<"q">>)>>)}

\* a record with the label l, a paragraph that holds the footnotes inP and
\* a <fussnoten> element next to the text that holds the footnotes after
NormFootnoted(l, inP, after) ==
    ElA("norm", [doknr |-> <<"d", "5">>],
        <<El("metadaten", <<TextEl("enbez", l)>>),
          El("textdaten",
             <<El("text", <<El("content", <<El("p", <<Text(<<"y">>)>> \o inP)>>)>>),
               El("fussnoten", after)>>)>>)

InitFoot ==
    InitOn({Document(pre \o <<NormFootnoted(l, inP, after)>>) :
               pre \in {<<>>, <<NormO1>>, <<NormNoEnbez>>},
               l \in {<<"SECT", " ", "1">>, <<"T", "O", "C">>},
               inP \in SeqsUpTo(FootnoteSet, 1),
               after \in SeqsUpTo(FootnoteSet, 2)})

SpecFoot == InitFoot /\ [][Next]_vars

(***************************************************************************)
(* levelFromCode(): one call on any short outline code.                    *)
(***************************************************************************)
CodeChars == {"0", "3", "5", " "}

InitLevel ==
    /\ call \in {[op |-> "levelFromCode", arg |-> c] :
                    c \in SeqsUpTo(CodeChars, MaxCodeLen)}
    /\ ret = Null
    /\ AsmIdle /\ ListIdle

LevelCall ==
    /\ call.op = "levelFromCode" /\ ret = Null
    /\ ret' = [type |-> "level", level |-> levelFromCode(call.arg)]
    /\ UNCHANGED call /\ UNCHANGED asmVars /\ UNCHANGED listVars

SpecLevel == InitLevel /\ [][LevelCall]_vars

(***************************************************************************)
(* parseParagraph(): one call on any short paragraph.                      *)
(***************************************************************************)
ParaKidSet ==
    {Text(<<"(", "1", ")", " ", "E", "x", "a", "m", "p", "l", "e", " ",
            "t", "e", "x", "t">>),
     Text(<<"(", "1", ")">>), Text(<<"(", "2", ")", " ">>), Text(<<"a">>),
     Text(<<" ">>), TextEl("b", <<"x">>), DlOrdered, TableOne}

InitPara ==
    /\ call \in {[op |-> "parseParagraph", arg |-> ks, prefix |-> pre] :
                    ks \in SeqsUpTo(ParaKidSet, MaxParaKids),
                    pre \in PrefixSet}
    /\ ret = Null
    /\ AsmIdle /\ ListIdle

ParagraphCall ==
    /\ call.op = "parseParagraph" /\ ret = Null
    /\ ret' = parseParagraph(El("p", call.arg), call.prefix)
    /\ UNCHANGED call /\ UNCHANGED asmVars /\ UNCHANGED listVars

SpecPara == InitPara /\ [][ParagraphCall]_vars

(***************************************************************************)
(* renderInlineToMd(): one call on any short run of inline nodes.          *)
(***************************************************************************)
InlineLeaves == {Text(<<"x">>), Text(<<"y">>)}
InlineInner ==
    InlineLeaves
      \cup {El(t, <<l>>) : t \in {"b", "zz"}, l \in InlineLeaves}
      \cup {El("br", <<>>), ElA("fnr", [ID |-> <<"F">>], <<>>),
            ElA("fnr", [ID |-> <<"F">>], <<Text(<<"x">>)>>),
            El("fnr", <<Text(<<"y">>)>>)}
InlineNodes ==
    InlineInner \cup {El(t, <<n>>) : t \in {"i", "zz", "noindex"},
                                     n \in InlineInner}

InitInline ==
    /\ call \in {[op |-> "renderInlineToMd", arg |-> ns] :
                    ns \in SeqsUpTo(InlineNodes, MaxInline)}
    /\ ret = Null
    /\ AsmIdle /\ ListIdle

RenderCall ==
    /\ call.op = "renderInlineToMd" /\ ret = Null
    /\ ret' = MdRun(renderInlineToMd(call.arg))
    /\ UNCHANGED call /\ UNCHANGED asmVars /\ UNCHANGED listVars

SpecInline == InitInline /\ [][RenderCall]_vars

(***************************************************************************)
(* TableParser.parse(): one call on any small table.                       *)
(***************************************************************************)
Col(n) == <<"c", "o", "l", n>>

\* <colspec> elements, named or not
ColSpecSet ==
    {ElA("colspec", [colname |-> Col(n)], <<>>) : n \in {"1", "2", "3"}}
      \cup {El("colspec", <<>>)}

\* the attributes of an <entry>: none, one name, or both; col9 names no column
EntryAttrSet ==
    LET names == {Col("1"), Col("2"), Col("3"), Col("9")}
    IN  {NoAttrs}
          \cup {[namest |-> a] : a \in names}
          \cup {[nameend |-> b] : b \in names}
          \cup {[namest |-> a, nameend |-> b] : a \in names, b \in names}

\* tables of one body row of one entry over any column specifications
SpanTables ==
    {El("table",
        <<El("tgroup",
             cols \o <<El("tbody",
                          <<El("row", <<ElA("entry", a, <<Text(<<"x">>)>>)>>)
                          >>)>>)>>) :
       cols \in SeqsUpTo(ColSpecSet, MaxCols), a \in EntryAttrSet}

RowSet ==
    {El("row", <<>>),
     El("row", <<TextEl("entry", <<"x">>)>>),
     El("row", <<TextEl("entry", <<"y">>), TextEl("entry", <<"x">>)>>),
     El("row", <<ElA("entry", [namest |-> Col("1"), nameend |-> Col("2")],
                     <<Text(<<"z">>)>>),
                 TextEl("entry", <<"y">>)>>)}

\* <thead> and <tbody> sections of at most n rows
SectionSet(n) ==
    {El(t, rs) : t \in {"thead", "tbody"}, rs \in SeqsUpTo(RowSet, n)}

TwoCols ==
    <<ElA("colspec", [colname |-> Col("1")], <<>>),
      ElA("colspec", [colname |-> Col("2")], <<>>)>>

\* tables of one group of at most two sections, and tables of two groups of
\* one section of at most one row each
OrderTables ==
    {El("table", <<El("tgroup", TwoCols \o secs)>>) :
       secs \in SeqsUpTo(SectionSet(MaxRows), 2)}
      \cup {El("table", <<El("tgroup", TwoCols \o <<s1>>),
                          El("tgroup", TwoCols \o <<s2>>)>>) :
              s1 \in SectionSet(1), s2 \in SectionSet(1)}

InitTable ==
    /\ call \in {[op |-> "TableParser.parse", arg |-> t] :
                    t \in SpanTables \cup OrderTables}
    /\ ret = Null
    /\ AsmIdle /\ ListIdle

TableCall ==
    /\ call.op = "TableParser.parse" /\ ret = Null
    /\ ret' = TableParser_parse(call.arg)
    /\ UNCHANGED call /\ UNCHANGED asmVars /\ UNCHANGED listVars

SpecTable == InitTable /\ [][TableCall]_vars

(***************************************************************************)
(* Notions the properties below are stated in.                             *)
(***************************************************************************)
Range(seq) == {seq[j] : j \in 1..Len(seq)}

OutlineRefs == {r \in 1..Len(nodes) : nodes[r].type = "outline"}

\* the depth of an Outline node, computed from its outline code
DepthOf(r) == levelFromCode(nodes[r].id)

\* the Outline node that holds r among its children; 0 for the document
ParentOf(r) ==
    IF \E q \in OutlineRefs : r \in Range(nodes[q].children)
    THEN CHOOSE q \in OutlineRefs : r \in Range(nodes[q].children)
    ELSE 0

RECURSIVE IsAncestor(_, _)
IsAncestor(a, c) ==
    ParentOf(c) # 0 /\ (ParentOf(c) = a \/ IsAncestor(a, ParentOf(c)))

\* the positions of the records of norms that produce a node, in document
\* order; node r of the heap is the object made for the r-th of them
DispatchedIdx ==
    SelectSeq([j \in 1..Len(norms) |-> j],
              LAMBDA j : Dispatch(norms[j]).kind # "skip")

\* the lists of children that hold Outline/Article/Section nodes
ChildLists == {doc.children} \cup {nodes[r].children : r \in OutlineRefs}

\* the main loop is about to handle record ni
AtRecord == pc = "main" /\ ni <= Len(norms)

MetaOf(norm) == firstChild(norm, "metadaten")

(***************************************************************************)
(* C1.  Depth monotonicity.                                                *)
(***************************************************************************)
\* C1 (as claimed): every Outline node of depth d has only Outline
\* descendants of depth greater than d, and each Outline node that is its
\* immediate child has depth exactly d + 1.
C1_DepthMonotone ==
    \A r \in OutlineRefs : \A c \in OutlineRefs :
        /\ ParentOf(c) = r => DepthOf(c) = DepthOf(r) + 1
        /\ IsAncestor(r, c) => DepthOf(c) > DepthOf(r)

(***************************************************************************)
(* C2.  Placing an Outline node.                                           *)
(***************************************************************************)
\* pop while the depth of the node on top is >= level
RECURSIVE PopByDepth(_, _)
PopByDepth(stk, level) ==
    IF stk # <<>> /\ DepthOf(stk[Len(stk)]) >= level
    THEN PopByDepth(SubSeq(stk, 1, Len(stk) - 1), level)
    ELSE stk

\* the new node is the last child of the top of stk, or of the document
\* when stk is empty, and it is pushed on stk
PlacedOn(stk) ==
    /\ stack' = Append(stk, Len(nodes) + 1)
    /\ Len(nodes') = Len(nodes) + 1
    /\ IF stk = <<>>
       THEN doc'.children = Append(doc.children, Len(nodes) + 1)
       ELSE nodes'[stk[Len(stk)]].children =
                Append(nodes[stk[Len(stk)]].children, Len(nodes) + 1)

\* C2 (as claimed): when a record parses as an Outline node of depth L, the
\* stack is popped while the depth of its top is >= L, the new node becomes
\* the last child of the remaining top (of the document if none remains)
\* and is pushed.
C2_ParentByDepth ==
    [][(AtRecord /\ parseOutline(norms[ni]) # NoOutline)
        => PlacedOn(PopByDepth(stack, parseOutline(norms[ni]).level))]_vars

(***************************************************************************)
(* C3.  Order preservation.                                                *)
(***************************************************************************)
\* the node kinds the direct children of the <content> blocks stand for
RECURSIVE KindsOfTags(_)
KindsOfTags(ks) ==
    IF ks = <<>> THEN <<>>
    ELSE (IF lname(Head(ks)) \in {"p", "dl", "table"}
          THEN <<IF lname(Head(ks)) = "dl" THEN "list" ELSE lname(Head(ks))>>
          ELSE <<>>) \o KindsOfTags(Tail(ks))

RECURSIVE ContentKids(_)
ContentKids(contents) ==
    IF contents = <<>> THEN <<>>
    ELSE childrenOf(Head(contents)) \o ContentKids(Tail(contents))

\* node n is what the record norm parses to (an Outline node apart from the
\* children it has received since)
MadeFrom(n, norm, d) ==
    /\ n.type = d.kind
    /\ [n EXCEPT !.children = <<>>] = [d.node EXCEPT !.children = <<>>]
    /\ n.type # "outline" =>
          [j \in 1..Len(n.children) |-> n.children[j].type]
            = KindsOfTags(ContentKids(allDesc(norm, "content")))

\* C3: at every node the children are in the order of the input records
\* (or input child elements) they were produced from: norms lists the norm
\* elements in document order, every node is the parse of its source
\* record, the children of the document and of every Outline node come from
\* records of increasing position, and the children of an Article or
\* Section follow the order of the content elements.
C3_OrderPreserved ==
    LET src == DispatchedIdx
    IN  /\ pc # "start" => norms = allChildren(po[1], "norm")
        /\ \A r \in 1..Len(nodes) :
              MadeFrom(nodes[r], norms[src[r]], Dispatch(norms[src[r]]))
        /\ \A L \in ChildLists : \A a \in 1..Len(L) : \A b \in 1..Len(L) :
              a < b => src[L[a]] < src[L[b]]

\* an Outline node has received two children of different kinds, the second
\* of which has content children of its own
C3_Witness ==
    /\ pc = "done"
    /\ \E r \in OutlineRefs :
          /\ Len(nodes[r].children) = 2
          /\ nodes[nodes[r].children[1]].type # nodes[nodes[r].children[2]].type
          /\ Len(nodes[nodes[r].children[2]].children) >= 2

(***************************************************************************)
(* C4.  Ids of list items.                                                 *)
(***************************************************************************)
\* the first maximal run of digits of m, undefined when m has no digit
FirstDigitRun(m) ==
    IF \A j \in 1..Len(m) : m[j] \notin Digit THEN undefined
    ELSE LET a == CHOOSE a \in 1..Len(m) :
                    m[a] \in Digit /\ \A j \in 1..(a - 1) : m[j] \notin Digit
             b == CHOOSE b \in a..Len(m) :
                    /\ \A j \in a..b : m[j] \in Digit
                    /\ b = Len(m) \/ m[b + 1] \notin Digit
         IN  SubSeq(m, a, b)

\* the id that the path of the ancestors and the marker alone give an item
IdOf(path, marker) ==
    IF path = <<>> \/ marker = undefined \/ FirstDigitRun(marker) = undefined
    THEN undefined
    ELSE path \o <<".">> \o FirstDigitRun(marker)

\* the path handed down to the lists nested in an item with this marker
PathBelow(path, marker) ==
    IF path = <<>> \/ marker = undefined \/ marker = <<>> THEN path
    ELSE path \o <<".">> \o (IF FirstDigitRun(marker) = undefined THEN <<"1">>
                              ELSE FirstDigitRun(marker))

\* C4: the id of a list item is a function of the path of its ancestors and
\* of its own marker: it is the same wherever the item stands among its
\* siblings and whatever was parsed before it, also for the items of an
\* ordered list nested in an item; nothing else (no counter, no generator)
\* enters it.
C4_IdFromPathAndMarker ==
    listOut = Null =>
      \A j \in 1..Len(items) :
        /\ items[j].id = IdOf(idPrefix, items[j].label)
        /\ \A c \in Range(items[j].children) :
              (c.type = "list" /\ c.kind = "ordered") =>
                \A it \in Range(c.children) :
                  it.id = IdOf(PathBelow(idPrefix, items[j].label), it.label)

\* two numbered items stand in the reverse order of their numbers and the
\* second holds a nested ordered list with ids of its own
C4_Witness ==
    /\ listOut = Null /\ Len(items) >= 2
    /\ items[1].label = <<"2", ".">> /\ items[1].id = <<"4", ".", "2">>
    /\ items[2].label = <<"1", ".">> /\ items[2].id = <<"4", ".", "1">>
    /\ \E c \in Range(items[2].children) :
          /\ c.type = "list"
          /\ c.children[2].id = <<"4", ".", "1", ".", "2">>

(***************************************************************************)
(* C5.  Labels of list items.                                              *)
(***************************************************************************)
\* C5 (as claimed): in every returned List, if the kind is unordered no item
\* has a label, and if the kind is ordered every item has a non-empty label.
C5_LabelsFollowKind ==
    listOut # Null =>
      /\ listOut.kind = "unordered" =>
            \A it \in Range(listOut.children) : it.label = undefined
      /\ listOut.kind = "ordered" =>
            \A it \in Range(listOut.children) :
                it.label # undefined /\ it.label # <<>>

(***************************************************************************)
(* C6.  Kind and style of a list.                                          *)
(***************************************************************************)
\* the marker of the first item as far as the scan has got: undefined when
\* there is no item yet or the first item has no marker
FirstMarkerNow ==
    IF items # <<>> THEN items[1].label ELSE pendingMarker

\* the first <dt> of the input opens the first item
FirstDtOpens ==
    \E a \in 1..Len(kids) :
        /\ lname(kids[a]) = "dt"
        /\ \A j \in 1..(a - 1) : lname(kids[j]) \notin {"dt", "dd", "la"}
FirstDt ==
    kids[CHOOSE a \in 1..Len(kids) :
            lname(kids[a]) = "dt"
            /\ \A j \in 1..(a - 1) : lname(kids[j]) # "dt"]

KindStyle(c) == <<c.kind, c.style>>

\* C6: at every point of the scan after the first item has got its marker,
\* and in the returned List, kind and style are the classification of the
\* marker of the first item, whatever markers follow.
C6_KindFromFirstMarker ==
    /\ (listOut = Null /\ FirstMarkerNow # undefined) =>
          <<listKind, listStyle>> = KindStyle(classifyMarker(FirstMarkerNow))
    /\ (listOut # Null /\ FirstDtOpens) =>
          KindStyle(listOut) = KindStyle(classifyMarker(textDeep(FirstDt)))

\* returned lists whose later markers classify differently from the first
C6_Witness ==
    /\ listOut # Null /\ FirstDtOpens /\ Len(items) >= 3
    /\ KindStyle(listOut) = <<"ordered", "arabic">>
    /\ items[2].label = <<"a", ")">>
    /\ items[3].label = <<"BULLET">>

(***************************************************************************)
(* C7.  The marker classifier.                                             *)
(***************************************************************************)
\* the shapes of marker the rules name
ArabicShape(m) ==
    \E a \in {0, 1} : \E b \in {0, 1} : \E c \in {0, 1} :
        /\ Len(m) - a - b - c >= 1
        /\ a = 1 => m[1] = "("
        /\ \A j \in (a + 1)..(Len(m) - b - c) : m[j] \in Digit
        /\ b = 1 => m[Len(m) - c] = ")"
        /\ c = 1 => m[Len(m)] \in {".", ")"}
LetterShape(m, S) == Len(m) = 2 /\ m[1] \in S /\ m[2] = ")"
NumeralShape(m, S) ==
    Len(m) >= 2 /\ m[Len(m)] = ")" /\ \A j \in 1..(Len(m) - 1) : m[j] \in S

RuleMatches(i, m) ==
    CASE i = 1 -> ArabicShape(m)
      [] i = 2 -> LetterShape(m, Lower)
      [] i = 3 -> LetterShape(m, Upper)
      [] i = 4 -> NumeralShape(m, RomanLower)
      [] i = 5 -> NumeralShape(m, RomanUpper)
      [] i = 6 -> m = <<"BULLET">>
      [] i = 7 -> m \in {<<"-">>, <<"ENDASH">>, <<"EMDASH">>}
      [] OTHER -> TRUE

RuleKind ==
    <<"ordered", "ordered", "ordered", "ordered", "ordered",
      "unordered", "unordered", "unordered">>
RuleStyle ==
    <<"arabic", "alpha-lower", "alpha-upper", "roman-lower", "roman-upper",
      "bullet", "dash", "custom">>

FirstRule(m) ==
    CHOOSE i \in 1..Len(RuleKind) :
        RuleMatches(i, m) /\ \A j \in 1..(i - 1) : ~RuleMatches(j, m)

\* C7: for every marker the classifier returns the kind and style of the
\* first rule, in the stated order, that the marker (without surrounding
\* white space) matches; only the last rule, custom, carries a symbol, and
\* the symbol is the marker.
C7_FirstMatchingRule ==
    ret # Null =>
      /\ ret.kind = RuleKind[FirstRule(Trim(call.arg))]
      /\ ret.style = RuleStyle[FirstRule(Trim(call.arg))]
      /\ ret.symbol = IF FirstRule(Trim(call.arg)) = Len(RuleKind)
                      THEN Trim(call.arg) ELSE undefined

\* "i)" matches the letter rule and the roman rule: the earlier rule wins
C7_Witness ==
    /\ ret # Null /\ call.arg = <<"i", ")">>
    /\ RuleMatches(2, call.arg) /\ RuleMatches(4, call.arg)
    /\ ret.style = "alpha-lower"

(***************************************************************************)
(* C8.  Document metadata.                                                 *)
(***************************************************************************)
\* the abbreviation / title a record supplies, undefined if it has none
JurabkOf(norm) ==
    IF Present(MetaOf(norm)) /\ Present(firstChild(MetaOf(norm), "jurabk"))
    THEN StripYear(Trim(textDeep(firstChild(MetaOf(norm), "jurabk"))))
    ELSE undefined
TitleOf(norm) ==
    IF Present(MetaOf(norm)) THEN MetaTitle(MetaOf(norm)) ELSE undefined

\* v is the first non-empty value among vals, or is empty when there is none
IsFirstSupplied(v, vals) ==
    IF \E j \in 1..Len(vals) : Truthy(vals[j])
    THEN v = vals[CHOOSE j \in 1..Len(vals) :
                    /\ Truthy(vals[j])
                    /\ \A j2 \in 1..(j - 1) : ~Truthy(vals[j2])]
    ELSE ~Truthy(v)

NoOutlineUnit(norm) == ~Present(firstChild(MetaOf(norm), "gliederungseinheit"))
LabelAbsent(norm) == ~Present(firstChild(MetaOf(norm), "enbez"))
LabelEmpty(norm) ==
    /\ Present(firstChild(MetaOf(norm), "enbez"))
    /\ textDeep(firstChild(MetaOf(norm), "enbez")) = <<>>

\* C9 (as claimed): a record with no outline unit and no citation label,
\* the label being absent or empty, produces no node: the tree and the
\* stack are the same after it as before it.
C9_SkipAbsentOrEmpty ==
    [][(/\ AtRecord
        /\ NoOutlineUnit(norms[ni])
        /\ (LabelAbsent(norms[ni]) \/ LabelEmpty(norms[ni])))
        => UNCHANGED <<doc, nodes, stack>>]_vars

\* C9 (amended): a record with no outline unit and no citation label
\* element produces no node: the tree and the stack are the same after it
\* as before it (what the later records do depends on nothing else).
C9_SkipAbsent ==
    [][(AtRecord /\ NoOutlineUnit(norms[ni]) /\ LabelAbsent(norms[ni]))
        => UNCHANGED <<doc, nodes, stack>>]_vars

\* a record without label has just been passed over below an open Outline
\* node, with nodes before it and a record still to come
C9_Witness ==
    /\ AtRecord /\ ni > 1
    /\ NoOutlineUnit(norms[ni - 1]) /\ LabelAbsent(norms[ni - 1])
    /\ stack # <<>> /\ nodes # <<>>

(***************************************************************************)
(* C10.  Articles and Sections.                                            *)
(***************************************************************************)
\* the text of the label element of a record
LabelOf(norm) == textDeep(firstChild(MetaOf(norm), "enbez"))

\* digits, then at most one letter
IsNumber(t) ==
    \E d \in 1..Len(t) :
        /\ \A j \in 1..d : t[j] \in Digit
        /\ d = Len(t) \/ (d = Len(t) - 1 /\ t[Len(t)] \in Letter)

\* <<i, j>>: l is a head of i characters, white space up to j, then a number
Splits(l) ==
    {s \in (0..Len(l)) \X (0..Len(l)) :
        /\ s[1] <= s[2]
        /\ \A q \in (s[1] + 1)..s[2] : l[q] \in WhiteSpace
        /\ IsNumber(SubSeq(l, s[2] + 1, Len(l)))}

ClaimedHeads ==
    {<<"SECT">>, <<"SECT", "SECT">>, <<"A", "r", "t", ".">>,
     <<"A", "r", "t", "i", "k", "e", "l">>}
InClaimedGrammar(l) == \E s \in Splits(l) : SubSeq(l, 1, s[1]) \in ClaimedHeads

\* one or more section signs, or Art / Art. / Artikel in any letter case
IsCitationHead(h) ==
    \/ h # <<>> /\ \A j \in 1..Len(h) : h[j] = "SECT"
    \/ [j \in 1..Len(h) |-> toLowerCase(h[j])]
          \in {<<"a", "r", "t">>, <<"a", "r", "t", ".">>,
               <<"a", "r", "t", "i", "k", "e", "l">>}
InCitationGrammar(l) == \E s \in Splits(l) : IsCitationHead(SubSeq(l, 1, s[1]))

CitedNumber(l) ==
    LET s == CHOOSE s \in Splits(l) : IsCitationHead(SubSeq(l, 1, s[1]))
    IN  SubSeq(l, s[2] + 1, Len(l))
NormalizedLabel(l) ==
    (IF l[1] = "SECT" THEN <<"SECT", " ">> ELSE <<"A", "r", "t", ".", " ">>)
        \o CitedNumber(l)

\* the main loop is at a record that is no Outline record and has a
\* non-empty label
AtLabelledRecord ==
    /\ AtRecord /\ parseOutline(norms[ni]) = NoOutline
    /\ Present(MetaOf(norms[ni]))
    /\ Present(firstChild(MetaOf(norms[ni]), "enbez"))
    /\ LabelOf(norms[ni]) # <<>>

\* the step makes one node: an Article with the number as id and the
\* normalized label if cited, else a Section with the label as title
MakesNodeFor(l, cited) ==
    /\ Len(nodes') = Len(nodes) + 1
    /\ IF cited
       THEN /\ nodes'[Len(nodes')].type = "article"
            /\ nodes'[Len(nodes')].id = CitedNumber(l)
            /\ nodes'[Len(nodes')].label = NormalizedLabel(l)
       ELSE /\ nodes'[Len(nodes')].type = "section"
            /\ nodes'[Len(nodes')].title = l

\* C10 (as claimed): a label produces an Article exactly when it is one or
\* two section signs, "Art." or "Artikel" followed by a number with an
\* optional letter; the Article has the number as id and the normalized
\* label; any other non-empty label produces a Section titled by the label.
C10_ClaimedGrammar ==
    [][AtLabelledRecord
        => MakesNodeFor(LabelOf(norms[ni]),
                        InClaimedGrammar(LabelOf(norms[ni])))]_vars

\* C10 (amended): for a record that is no Outline record, the label produces
\* an Article exactly when it is one or more section signs, or "Art",
\* "Art." or "Artikel" in any letter case, then optional white space, then
\* digits with at most one letter; the Article has the number as id and
\* the normalized label; any other non-empty label produces a Section
\* titled by the label text.
C10_CitationGrammar ==
    [][AtLabelledRecord
        => MakesNodeFor(LabelOf(norms[ni]),
                        InCitationGrammar(LabelOf(norms[ni])))]_vars

\* an Article has been made from "Art" without dot and a number
C10_Witness ==
    /\ pc = "done" /\ nodes # <<>>
    /\ LabelOf(norms[Len(norms)]) = <<"A", "r", "t", " ", "1", "4", "a">>
    /\ nodes[Len(nodes)].type = "article"
    /\ nodes[Len(nodes)].id = <<"1", "4", "a">>
    /\ nodes[Len(nodes)].label = <<"A", "r", "t", ".", " ", "1", "4", "a">>

(***************************************************************************)
(* C11.  Depth from the outline code.                                      *)
(***************************************************************************)
DigitCount(c) == Cardinality({j \in 1..Len(c) : c[j] \in Digit})

\* C11: the depth computed for a code depends on the code alone, and a code
\* of 2 + 3k digits has depth k + 1: depth 1 for the two-digit root, one
\* more for every further chunk of three digits.
C11_DepthFromChunks ==
    (ret # Null /\ call.op = "levelFromCode") =>
      \A kk \in 0..MaxCodeLen :
        DigitCount(call.arg) = 2 + 3 * kk => ret.level = kk + 1

\* a code of a root and two chunks, all digits, has got depth 3
C11_Witness ==
    /\ ret # Null /\ call.op = "levelFromCode"
    /\ Len(call.arg) = 8 /\ DigitCount(call.arg) = 8
    /\ ret.level = 3

(***************************************************************************)
(* C12.  The depth of "050030" and of "05".                                *)
(***************************************************************************)
\* C12: the code "050030" computes depth 2 and the code "05" computes
\* depth 1.
C12_ScenarioDepths ==
    (ret # Null /\ call.op = "levelFromCode") =>
      /\ call.arg = <<"0", "5", "0", "0", "3", "0">> => ret.level = 2
      /\ call.arg = <<"0", "5">> => ret.level = 1

C12_Witness ==
    /\ ret # Null /\ call.op = "levelFromCode"
    /\ call.arg = <<"0", "5", "0", "0", "3", "0">>
    /\ ret.level = 2

(***************************************************************************)
(* C13.  Numbered paragraphs.                                              *)
(***************************************************************************)
\* t begins with "(", n digits and ")"
BeginsWithNumber(t, n) ==
    /\ n >= 1 /\ Len(t) >= n + 2
    /\ t[1] = "(" /\ t[n + 2] = ")"
    /\ \A j \in 2..(n + 1) : t[j] \in Digit
IsNumbered(t) == \E n \in 1..Len(t) : BeginsWithNumber(t, n)
NumberOf(t) ==
    SubSeq(t, 2, 1 + CHOOSE n \in 1..Len(t) : BeginsWithNumber(t, n))

\* the first text child of the children ks of a paragraph is ks[j], and no
\* inline element stands before it: it also opens the first TextRun
FirstTextAt(ks, j) ==
    /\ isTextNode(ks[j])
    /\ \A i \in 1..(j - 1) : lname(ks[i]) = "dl"

\* what C13 says of the result for the first text t
NumberedResult(t) ==
    /\ ret.label = <<"(">> \o NumberOf(t) \o <<")">>
    /\ ret.id = IF call.prefix = <<>> THEN NumberOf(t)
                ELSE call.prefix \o <<".">> \o NumberOf(t)
    /\ Len(call.arg) = 1 =>
          /\ Len(ret.children) = 1
          /\ ret.children[1].type = "md"
          /\ ret.children[1].md = Trim(SubSeq(t, Len(NumberOf(t)) + 3, Len(t)))

\* C13 (as claimed): a paragraph whose first text run (its first text child,
\* which is also the start of the first TextRun it emits) begins with "(n)"
\* gets the label "(n)" and the id prefix "." n (n alone for an empty
\* prefix); when that text is all its content the one TextRun is the text
\* after the marker: "(1) Example text" gives the label "(1)" and the one
\* TextRun "Example text".
C13_NumberedParagraph ==
    (ret # Null /\ call.op = "parseParagraph") =>
      /\ \A j \in 1..Len(call.arg) :
            (FirstTextAt(call.arg, j) /\ IsNumbered(call.arg[j].text))
              => NumberedResult(call.arg[j].text)
      /\ call.arg = <<Text(<<"(", "1", ")", " ", "E", "x", "a", "m", "p", "l",
                             "e", " ", "t", "e", "x", "t">>)>> =>
            /\ ret.label = <<"(", "1", ")">>
            /\ ret.children = <<MdRun(<<"E", "x", "a", "m", "p", "l", "e", " ",
                                        "t", "e", "x", "t">>)>>

(***************************************************************************)
(* C14.  No blank TextRun.                                                 *)
(***************************************************************************)
\* C14 (as claimed): no returned Paragraph has an empty or white-space-only
\* TextRun among its children, also when the leading marker was all the
\* text before a nested list.
C14_NoBlankRun ==
    (ret # Null /\ call.op = "parseParagraph") =>
      \A j \in 1..Len(ret.children) :
        ret.children[j].type = "md" => Trim(ret.children[j].md) # <<>>

(***************************************************************************)
(* C19.  The inline renderer.                                              *)
(***************************************************************************)
\* the text of the text leaves of inline nodes, in document order
RECURSIVE LeafText(_)
LeafText(ns) ==
    IF ns = <<>> THEN <<>>
    ELSE (IF isTextNode(Head(ns)) THEN Head(ns).text
          ELSE LeafText(Head(ns).kids)) \o LeafText(Tail(ns))

\* what is left of a rendered string without the characters of the markup
\* (the text leaves of InlineNodes are written with x and y only)
TextOnly(md) == SelectSeq(md, LAMBDA c : c \in {"x", "y"})

\* C19 (as claimed): the rendered string holds the text of every text leaf
\* of the input exactly once and in document order, whatever tags
\* (unknown ones and footnote references included) enclose the leaves.
C19_EveryLeafOnce ==
    (ret # Null /\ call.op = "renderInlineToMd") =>
      TextOnly(ret.md) = LeafText(call.arg)

(***************************************************************************)
(* C15.  The token of a marker in the id of a list item.                   *)
(***************************************************************************)
Alnum == Digit \cup Letter

\* the first maximal run of letters and digits of m, undefined when m has
\* none ("3." gives "3", "b)" gives "b")
AlnumToken(m) ==
    IF m = undefined \/ \A j \in 1..Len(m) : m[j] \notin Alnum THEN undefined
    ELSE LET a == CHOOSE a \in 1..Len(m) :
                    m[a] \in Alnum /\ \A j \in 1..(a - 1) : m[j] \notin Alnum
             b == CHOOSE b \in a..Len(m) :
                    /\ \A j \in a..b : m[j] \in Alnum
                    /\ b = Len(m) \/ m[b + 1] \notin Alnum
         IN  SubSeq(m, a, b)

\* C15 (as claimed): every list item has an id; under a parent id it is the
\* parent id, ".", and the alphanumeric token of its marker ("3." gives "3",
\* "b)" gives "b"), and an item whose marker holds no token has an id all
\* the same, built from a placeholder.
C15_IdFromToken ==
    listOut = Null =>
      \A j \in 1..Len(items) :
        /\ items[j].id # undefined
        /\ (idPrefix # <<>> /\ AlnumToken(items[j].label) # undefined) =>
              items[j].id = idPrefix \o <<".">> \o AlnumToken(items[j].label)

(***************************************************************************)
(* C16.  The span of a table cell.                                         *)
(***************************************************************************)
\* the rows of the <tbody> sections, in document order
RECURSIVE SectionRows(_)
SectionRows(secs) ==
    IF secs = <<>> THEN <<>>
    ELSE allChildren(Head(secs), "row") \o SectionRows(Tail(secs))

\* the body rows of a table in document order, each with the column
\* specifications of its group
RECURSIVE BodyRowsIn(_)
BodyRowsIn(tgroups) ==
    IF tgroups = <<>> THEN <<>>
    ELSE LET rs == SectionRows(allChildren(Head(tgroups), "tbody"))
             cols == allChildren(Head(tgroups), "colspec")
         IN  [j \in 1..Len(rs) |-> [row |-> rs[j], cols |-> cols]]
               \o BodyRowsIn(Tail(tgroups))

EntriesOf(row) == allChildren(row, "entry")

\* the places among the column specifications that carry the name
PlacesOf(cols, name) ==
    IF name = undefined THEN {}
    ELSE {i \in 1..Len(cols) : Attr(cols[i].attrs, "colname") = name}

\* the span of an emitted cell: a bare string spans one column
SpanOf(cell) == IF "colspan" \in DOMAIN cell THEN cell.colspan ELSE 1

\* the emitted cell of every entry of every body row satisfies P(cols, e, c)
EveryBodyCell(P(_, _, _)) ==
    (ret # Null /\ call.op = "TableParser.parse") =>
      LET brs == BodyRowsIn(allChildren(call.arg, "tgroup"))
      IN  \A r \in 1..Len(brs) :
            \A j \in 1..Len(EntriesOf(brs[r].row)) :
              (r <= Len(ret.rows) /\ j <= Len(ret.rows[r])) =>
                P(brs[r].cols, EntriesOf(brs[r].row)[j], ret.rows[r][j])

SpanAsClaimed(cols, e, c) ==
    LET S == PlacesOf(cols, Attr(e.attrs, "namest"))
        E == PlacesOf(cols, Attr(e.attrs, "nameend"))
    IN  IF S # {} /\ E # {}
        THEN \E i \in S, j \in E : SpanOf(c) = j - i + 1
        ELSE SpanOf(c) = 1

SpanForward(cols, e, c) ==
    LET S == PlacesOf(cols, Attr(e.attrs, "namest"))
        E == PlacesOf(cols, Attr(e.attrs, "nameend"))
    IN  IF S # {} /\ E # {}
        THEN \E i \in S, j \in E :
                SpanOf(c) = IF j >= i THEN j - i + 1 ELSE 1
        ELSE SpanOf(c) = 1

ContentsOfRow(row) ==
    [j \in 1..Len(EntriesOf(row)) |->
        Trim(renderInlineToMd(childrenOf(EntriesOf(row)[j])))]

CellContents(cells) == [j \in 1..Len(cells) |-> cells[j].content]

\* the first row of the header section of the first group that has one
HeaderRowIn(tgroups) ==
    LET withHead == {g \in 1..Len(tgroups) :
                        allChildren(tgroups[g], "thead") # <<>>}
        g == CHOOSE g \in withHead : \A g2 \in withHead : g <= g2
    IN  allChildren(allChildren(tgroups[g], "thead")[1], "row")

\* C17: the rows of a Table are its body rows in input order, the cells of
\* each row stand in the order of its entries, none is dropped; the header
\* is the first row of the header section and is no body row; a table
\* without header section has no header.
C17_RowsAndHeader ==
    (ret # Null /\ call.op = "TableParser.parse") =>
      LET tgs == allChildren(call.arg, "tgroup")
          brs == BodyRowsIn(tgs)
      IN  /\ Len(ret.rows) = Len(brs)
          /\ \A r \in 1..Len(brs) :
                CellContents(ret.rows[r]) = ContentsOfRow(brs[r].row)
          /\ IF \A g \in 1..Len(tgs) : allChildren(tgs[g], "thead") = <<>>
             THEN "headers" \notin DOMAIN ret
             ELSE (HeaderRowIn(tgs) # <<>>
                     /\ EntriesOf(HeaderRowIn(tgs)[1]) # <<>>) =>
                    /\ "headers" \in DOMAIN ret
                    /\ CellContents(ret.headers)
                         = ContentsOfRow(HeaderRowIn(tgs)[1])

\* a header section of two rows and two body sections with different rows
\* of two cells gave one header and the body rows in their order
C17_Witness ==
    /\ ret # Null /\ call.op = "TableParser.parse"
    /\ \E tgs \in {allChildren(call.arg, "tgroup")} :
          /\ Len(tgs) = 1
          /\ Len(allChildren(tgs[1], "tbody")) = 2
          /\ lname(childrenOf(tgs[1])[3]) = "tbody"
    /\ Len(ret.rows) = 2
    /\ CellContents(ret.rows[1]) = <<<<"y">>, <<"x">>>>
    /\ CellContents(ret.rows[2]) = <<<<"z">>, <<"y">>>>

(***************************************************************************)
(* C18.  Footnotes of Articles and Sections.                               *)
(***************************************************************************)
\* the reference id of a footnote definition
RefIdOf(fn) == Trim(FootnoteRawId(fn.attrs))

\* the footnote definitions with a reference id beneath a record, in
\* document order
FootnotesBeneath(norm) ==
    SelectSeq(allDesc(norm, "footnote"), LAMBDA fn : RefIdOf(fn) # <<>>)

IdsOf(fs) == [q \in 1..Len(fs) |-> fs[q].id]

\* C18 (as claimed): every Article and every Section carries the footnote
\* definitions beneath its record that have a reference id, all of them and
\* in document order, each under its id; it has no footnotes exactly when
\* there is none beneath its record.
C18_FootnotesCarried ==
    LET src == DispatchedIdx
    IN  \A r \in 1..Len(nodes) :
          nodes[r].type \in {"article", "section"} =>
            /\ IdsOf(nodes[r].footnotes)
                 = [q \in 1..Len(FootnotesBeneath(norms[src[r]])) |->
                      RefIdOf(FootnotesBeneath(norms[src[r]])[q])]
            /\ \A q \in 1..Len(nodes[r].footnotes) :
                  nodes[r].footnotes[q].id # <<>>

\* the same, of Articles alone
C18_ArticleFootnotes ==
    LET src == DispatchedIdx
    IN  \A r \in 1..Len(nodes) :
          nodes[r].type = "article" =>
            IdsOf(nodes[r].footnotes)
              = [q \in 1..Len(FootnotesBeneath(norms[src[r]])) |->
                   RefIdOf(FootnotesBeneath(norms[src[r]])[q])]

(***************************************************************************)
(* C20.  The output is a tree.                                             *)
(***************************************************************************)
\* the children of the document (0) or of an Outline node
ChildrenAt(q) == IF q = 0 THEN doc.children ELSE nodes[q].children

\* the places <<parent, position>> at which node r stands
PlacesOfNode(r) ==
    {pl \in UNION {{<<q, j>> : j \in 1..Len(ChildrenAt(q))} :
                      q \in {0} \cup OutlineRefs} :
        ChildrenAt(pl[1])[pl[2]] = r}

\* C20: every node stands at exactly one place, among the children of the
\* document or of one Outline node made before it (so the document is the
\* only root and there is no cycle); no children list names anything but a
\* node, and no node has a field for its parent.
C20_Tree ==
    /\ \A r \in 1..Len(nodes) :
          /\ Cardinality(PlacesOfNode(r)) = 1
          /\ \A pl \in PlacesOfNode(r) : pl[1] < r
          /\ "parent" \notin DOMAIN nodes[r]
    /\ \A q \in {0} \cup OutlineRefs :
          Range(ChildrenAt(q)) \subseteq 1..Len(nodes)

\* a finished conversion with nodes at three levels below the document
C20_Witness ==
    /\ pc = "done" /\ Len(nodes) = 3
    /\ doc.children = <<1>>
    /\ nodes[1].children = <<2>>
    /\ nodes[2].children = <<3>>

(***************************************************************************)
(* C21.  Attaching an Article or a Section.                                *)
(***************************************************************************)
\* the main loop is about to handle a record dispatched as Article/Section
AtLeafRecord ==
    AtRecord /\ Dispatch(norms[ni]).kind \in {"article", "section"}

\* C21: the step on a record that parses as an Article or a Section adds
\* exactly one node, as the last child of the node on top of the stack (of
\* the document when the stack is empty), changes no other children list
\* and leaves the stack as it is.
C21_AttachFrame ==
    [][AtLeafRecord =>
         /\ stack' = stack
         /\ Len(nodes') = Len(nodes) + 1
         /\ nodes'[Len(nodes')].type \in {"article", "section"}
         /\ \A r \in 1..Len(nodes) :
               nodes'[r].children =
                 IF stack # <<>> /\ r = stack[Len(stack)]
                 THEN Append(nodes[r].children, Len(nodes) + 1)
                 ELSE nodes[r].children
         /\ doc'.children = IF stack = <<>>
                            THEN Append(doc.children, Len(nodes) + 1)
                            ELSE doc.children]_vars

\* an Article or Section has just been attached as the second child of the
\* open Outline node, which is still the top of the stack
C21_Witness ==
    /\ pc = "main" /\ ni > 1
    /\ Dispatch(norms[ni - 1]).kind \in {"article", "section"}
    /\ stack # <<>>
    /\ Len(nodes[stack[Len(stack)]].children) = 2
    /\ nodes[stack[Len(stack)]].children[2] = Len(nodes)

(***************************************************************************)
(* C22.  Label, id and handed-down prefix of a paragraph.                  *)
(***************************************************************************)
\* every nested list of the returned paragraph is the list parsed under
\* the id prefix pre
ListsParsedUnder(pre) ==
    \A j \in 1..Len(ret.children) :
      ret.children[j].type = "list" =>
        \E src \in {n \in Range(call.arg) : lname(n) = "dl"} :
           ret.children[j] = parseList(src, pre)

\* the first text run of a paragraph: the text and inline markup of the
\* first stretch of children between nested lists that is not blank
RECURSIVE FirstRunOf(_, _)
FirstRunOf(ks, acc) ==
    IF ks = <<>> THEN Trim(acc)
    ELSE IF lname(Head(ks)) = "dl"
         THEN IF Trim(acc) # <<>> THEN Trim(acc)
              ELSE FirstRunOf(Tail(ks), <<>>)
         ELSE FirstRunOf(Tail(ks),
                         acc \o (IF isTextNode(Head(ks)) THEN Head(ks).text
                                 ELSE renderInlineToMd(<<Head(ks)>>)))

FirstTextUnnumbered == ~IsNumbered(FirstRunOf(call.arg, <<>>))

\* C22 (as claimed): a Paragraph has a label exactly if it has an id; its
\* nested lists are parsed under the prefix extended by the paragraph number
\* (the id of the paragraph) exactly if the Paragraph carries the number as
\* its label, and under the inherited prefix otherwise; a paragraph whose
\* first text run does not begin with "(n)" has neither label nor id and hands
\* the inherited prefix to its lists.
C22_LabelIdPrefix ==
    (ret # Null /\ call.op = "parseParagraph") =>
      /\ (ret.label # undefined) <=> (ret.id # undefined)
      /\ IF ret.label # undefined THEN ListsParsedUnder(ret.id)
         ELSE ListsParsedUnder(call.prefix)
      /\ FirstTextUnnumbered =>
            /\ ret.label = undefined /\ ret.id = undefined
            /\ ListsParsedUnder(call.prefix)

(***************************************************************************)
(* C23.  Mixed content of a paragraph.                                     *)
(***************************************************************************)
\* the kind of child a nested block element must yield
BlockKind(t) ==
    IF t = "dl" THEN "list" ELSE IF t = "table" THEN "table" ELSE "image"

\* the kinds of the children a paragraph with the children ks must have:
\* one TextRun for each stretch of text that is not blank, one node for each
\* nested list, table or image, in document order; acc is the text
\* buffered so far
RECURSIVE ShapeOf(_, _)
ShapeOf(ks, acc) ==
    IF ks = <<>> THEN (IF Trim(acc) # <<>> THEN <<"md">> ELSE <<>>)
    ELSE IF lname(Head(ks)) \in {"dl", "table", "img"}
         THEN (IF Trim(acc) # <<>> THEN <<"md">> ELSE <<>>)
                \o <<BlockKind(lname(Head(ks)))>> \o ShapeOf(Tail(ks), <<>>)
         ELSE ShapeOf(Tail(ks),
                      acc \o (IF isTextNode(Head(ks)) THEN Head(ks).text
                              ELSE renderInlineToMd(<<Head(ks)>>)))

\* C23 (as claimed): the children of a Paragraph are, in document order, one
\* TextRun for the text buffered before each nested list, table or image
\* (and after the last), and one node of its own for every nested list,
\* table or image: none is dropped or merged into the text.
C23_MixedContent ==
    (ret # Null /\ call.op = "parseParagraph") =>
      [j \in 1..Len(ret.children) |-> ret.children[j].type]
        = ShapeOf(call.arg, <<>>)

\* the same, of paragraphs that nest nothing but lists
C23_ListsOnly ==
    (ret # Null /\ call.op = "parseParagraph"
       /\ \A n \in Range(call.arg) : lname(n) \notin {"table", "img"}) =>
      [j \in 1..Len(ret.children) |-> ret.children[j].type]
        = ShapeOf(call.arg, <<>>)

(***************************************************************************)
(* C24.  Terms and definitions of a list.                                  *)
(***************************************************************************)
\* the loop of parseList is about to handle a term / a definition
AtTerm == listOut = Null /\ k <= Len(kids) /\ lname(kids[k]) = "dt"
AtDefinition ==
    listOut = Null /\ k <= Len(kids) /\ lname(kids[k]) \in {"dd", "la"}

TermsIn(ks) == Cardinality({j \in 1..Len(ks) : lname(ks[j]) = "dt"})

\* the definitions that stand before the first term
LeadingDefinitions(ks) ==
    {j \in 1..Len(ks) :
        /\ lname(ks[j]) \in {"dd", "la"}
        /\ \A i \in 1..(j - 1) : lname(ks[i]) # "dt"}

\* a definition with text that is not blank, or with a nested list or
\* paragraph
HasContent(n) ==
    \/ Trim(RawText(n)) # <<>>
    \/ \E part \in Range(childrenOf(n)) : lname(part) \in {"dl", "p"}

\* a term closes the pending item, which takes what was accumulated, and
\* opens a new one; a definition adds to the open item and to no other
TermsAndDefinitionsStep ==
    /\ AtTerm =>
          /\ buf' = <<>> /\ pendingMarker' # undefined
          /\ \/ items' = items /\ pendingMarker = undefined /\ buf = <<>>
             \/ /\ Len(items') = Len(items) + 1
                /\ SubSeq(items', 1, Len(items)) = items
                /\ items'[Len(items')].children = buf
    /\ AtDefinition =>
          /\ items' = items /\ pendingMarker' = pendingMarker
          /\ Len(buf') >= Len(buf) /\ SubSeq(buf', 1, Len(buf)) = buf

\* C24 (as claimed): each term closes the pending item and opens a new one,
\* the definitions up to the next term are accumulated in order into that
\* one item; the list has as many items as terms, plus one if definitions
\* stand before the first term.
C24_ItemPerTerm ==
    /\ [][TermsAndDefinitionsStep]_vars
    /\ [](listOut # Null =>
            Len(items) = TermsIn(kids)
                           + IF LeadingDefinitions(kids) # {} THEN 1 ELSE 0)

\* C24 (amended): the same, the list having as many items as terms, plus
\* one if definitions that are not empty stand before the first term.
C24_ItemPerTermOrContent ==
    /\ [][TermsAndDefinitionsStep]_vars
    /\ [](listOut # Null =>
            Len(items) = TermsIn(kids)
                           + IF \E j \in LeadingDefinitions(kids) :
                                   HasContent(kids[j])
                             THEN 1 ELSE 0)

\* a list of a definition, a term and two definitions was parsed: two
\* items, the second holding the two definitions in their order
C24_Witness ==
    /\ listOut # Null
    /\ [j \in 1..Len(kids) |-> lname(kids[j])]
         = <<"dd", "dt", "dd", "dd">>
    /\ Len(items) = 2
    /\ items[2].children = <<MdRun(<<"x">>), MdRun(<<"y">>)>>

(***************************************************************************)
(* C25.  The id prefix handed down inside a list item.                     *)
(***************************************************************************)
\* the nested lists and paragraphs among the children of an item
NestedIn(it) == {c \in Range(it.children) : c.type \in {"list", "p"}}

\* c is what the nested list or paragraph of the inputs gives under pre
ParsedUnder(c, pre) ==
    IF c.type = "list" THEN c = parseList(DlOrdered, pre)
    ELSE c = parseParagraph(ParaNumbered, pre)

\* C25 (as claimed): under a parent id, a list or paragraph nested in an
\* item whose marker has a token is parsed under the inherited prefix, ".",
\* and that token; so the nodes nested under two items of one list with
\* different markers are never parsed under the same prefix.
C25_PrefixFromToken ==
    (listOut = Null /\ idPrefix # <<>>) =>
      /\ \A j \in 1..Len(items) :
            AlnumToken(items[j].label) # undefined =>
              \A c \in NestedIn(items[j]) :
                ParsedUnder(c, idPrefix \o <<".">>
                                 \o AlnumToken(items[j].label))
      /\ \A i \in 1..Len(items) : \A j \in 1..Len(items) :
            (AlnumToken(items[i].label) # undefined
               /\ AlnumToken(items[j].label) # undefined
               /\ AlnumToken(items[i].label) # AlnumToken(items[j].label)) =>
              \A c \in NestedIn(items[i]) : \A d \in NestedIn(items[j]) :
                c.type = d.type => c # d

\* the same, of items with numbered markers alone
C25_PrefixFromNumber ==
    (listOut = Null /\ idPrefix # <<>>) =>
      \A j \in 1..Len(items) :
        FirstDigitRun(items[j].label) # undefined =>
          \A c \in NestedIn(items[j]) :
            ParsedUnder(c, idPrefix \o <<".">>
                             \o FirstDigitRun(items[j].label))

(***************************************************************************)
(* C26.  Lists and paragraphs nested in a definition.                      *)
(***************************************************************************)
\* the kinds of the lists and paragraphs nested in the parts of a
\* definition, directly or wrapped in a list-article, in document order
RECURSIVE NestedBlocks(_)
NestedBlocks(parts) ==
    IF parts = <<>> THEN <<>>
    ELSE (IF lname(Head(parts)) = "dl" THEN <<"list">>
          ELSE IF lname(Head(parts)) = "p" THEN <<"p">>
          ELSE IF lname(Head(parts)) = "la"
          THEN NestedBlocks(childrenOf(Head(parts)))
          ELSE <<>>) \o NestedBlocks(Tail(parts))

\* the same for the definitions among the first n children of the list
RECURSIVE NestedBlocksUpTo(_)
NestedBlocksUpTo(n) ==
    IF n = 0 THEN <<>>
    ELSE NestedBlocksUpTo(n - 1)
           \o (IF lname(kids[n]) \in {"dd", "la"}
               THEN NestedBlocks(childrenOf(kids[n])) ELSE <<>>)

\* the kinds of the structured children of the items so far, in order
RECURSIVE StructuredIn(_)
StructuredIn(its) ==
    IF its = <<>> THEN <<>>
    ELSE LET cs == SelectSeq(Head(its).children,
                             LAMBDA c : c.type \in {"list", "p"})
         IN  [j \in 1..Len(cs) |-> cs[j].type] \o StructuredIn(Tail(its))

\* C26 (as claimed): every list or paragraph nested in a definition or
\* list-article, also one wrapped in a list-article inside a definition,
\* is a structured child of the item at its place in document order; none
\* is flattened into the text of the item.
C26_NestedStructured ==
    listOut = Null =>
      StructuredIn(items \o <<[children |-> buf]>>)
        = NestedBlocksUpTo(IF k > Len(kids) THEN Len(kids) ELSE k - 1)

\* the same, of lists and paragraphs that stand directly in a definition
\* or list-article
C26_DirectStructured ==
    (listOut = Null
       /\ \A n \in Range(kids) : \A part \in Range(childrenOf(n)) :
             lname(part) # "la") =>
      StructuredIn(items \o <<[children |-> buf]>>)
        = NestedBlocksUpTo(IF k > Len(kids) THEN Len(kids) ELSE k - 1)

(***************************************************************************)
(* C27.  Which cells carry a span count.                                   *)
(***************************************************************************)
SpanOnlyFromRange(cols, e, c) ==
    LET S == PlacesOf(cols, Attr(e.attrs, "namest"))
        E == PlacesOf(cols, Attr(e.attrs, "nameend"))
    IN  "colspan" \in DOMAIN c =>
          /\ c.colspan > 1
          /\ \E i \in S, j \in E : c.colspan = j - i + 1

\* C27: a cell carries a span count only if the count comes from a start
\* and an end column name that both resolve, and every count carried is
\* greater than 1 (in header cells too); a cell without such a range
\* carries none.
C27_SpanOnlyAboveOne ==
    /\ EveryBodyCell(SpanOnlyFromRange)
    /\ (ret # Null /\ call.op = "TableParser.parse"
          /\ "headers" \in DOMAIN ret) =>
         \A j \in 1..Len(ret.headers) :
           "colspan" \in DOMAIN ret.headers[j] => ret.headers[j].colspan > 1

\* a header row and a body row each gave a cell with the span 2 next to a
\* cell without span count
C27_Witness ==
    /\ ret # Null /\ call.op = "TableParser.parse"
    /\ Len(ret.rows) >= 1
    /\ ret.rows[1] = <<[content |-> <<"z">>, colspan |-> 2],
                       [content |-> <<"y">>]>>
    /\ "headers" \in DOMAIN ret
    /\ ret.headers = ret.rows[1]

(***************************************************************************)
(* C28.  The stack of open Outline nodes.                                  *)
(***************************************************************************)
\* C28 (as claimed): at every point of the assembly the depths of the
\* Outline nodes on the stack increase strictly from bottom to top, and the
\* stack holds no more nodes than the depth of its top node.
C28_StackDepths ==
    /\ \A i \in 1..Len(stack) : \A j \in 1..Len(stack) :
          i < j => DepthOf(stack[i]) < DepthOf(stack[j])
    /\ stack # <<>> => Len(stack) <= DepthOf(stack[Len(stack)])

\* the second half alone
C28_StackBound ==
    stack # <<>> => Len(stack) <= DepthOf(stack[Len(stack)])

(***************************************************************************)
(* C29: the depth computed for any outline code is at least 1, so the pop  *)
(* loop ends after popping at most the current stack length, and the       *)
(* conversion finishes after handling each input record exactly once.      *)
(***************************************************************************)
\* the record the main loop is at is an outline unit of depth at least 1
LevelAtLeastOne ==
    AtRecord => \E d \in {Dispatch(norms[ni])} :
                   d.kind = "outline" => d.level >= 1

\* one iteration handles one record: the index advances by one, the loop
\* stays in the main phase, and the stack loses at most what it held before
\* the one node an outline unit pushes
OneRecordPerStep ==
    AtRecord =>
        /\ ni' = ni + 1 /\ pc' = "main"
        /\ Len(stack') <= Len(stack) + 1
        /\ \E n \in 0..Len(stack) :
              SubSeq(stack', 1, n) = SubSeq(stack, 1, n) /\ Len(stack') <= n + 1

\* at the end every record has been passed, none twice
AllRecordsHandled == pc = "done" => ni = Len(norms) + 1

\* C29: depth at least 1, one record per iteration, and the conversion ends
C29_Terminates ==
    /\ []LevelAtLeastOne
    /\ [][OneRecordPerStep]_vars
    /\ []AllRecordsHandled
    /\ <>(pc = "done")

\* a finished conversion of a full document in which the pop loop popped:
\* two outline units stand side by side under the document
C29_Witness ==
    /\ pc = "done" /\ Len(norms) = MaxNorms
    /\ Len(doc.children) >= 2
    /\ \A i \in 1..Len(doc.children) : nodes[doc.children[i]].type = "outline"

(***************************************************************************)
(* C30.  Sibling ids.                                                      *)
(***************************************************************************)
\* two items of the list being built, each with a marker and an id
IdPairs ==
    {p \in (1..Len(items)) \X (1..Len(items)) :
        /\ p[1] < p[2]
        /\ items[p[1]].label # undefined /\ items[p[2]].label # undefined
        /\ items[p[1]].id # undefined /\ items[p[2]].id # undefined}

\* C30: no two siblings carry the same id: two items of one list with
\* different markers get different ids.
C30_SiblingIds ==
    listOut = Null =>
      \A p \in IdPairs :
          items[p[1]].label # items[p[2]].label => items[p[1]].id # items[p[2]].id

\* the same for two items whose markers differ in their first run of digits
C30_DistinctNumbers ==
    listOut = Null =>
      \A p \in IdPairs :
          FirstDigitRun(items[p[1]].label) # FirstDigitRun(items[p[2]].label)
              => items[p[1]].id # items[p[2]].id

====
